---------------------------- MODULE Spec2Model ----------------------------
(***************************************************************************)
(* quick_tag: scan EC2 instances, EBS volumes and ENIs for missing or      *)
(* stale Name tags, apply suggested names, record every applied tag in     *)
(* the history ledger (~/.quick-tag.yml) and undo the last run.            *)
(*                                                                         *)
(* Strings are TLA+ strings; Len, SubSeq and \o act on them byte by byte   *)
(* as Go's len, slicing and + do on ASCII text.                            *)
(***************************************************************************)
EXTENDS Integers, Sequences, FiniteSets, TLC

(***************************************************************************)
(* Go's strings package, as far as main.go uses it.                        *)
(***************************************************************************)

\* A nil *string (an absent tag value, image id, device, description ...).
Nil == "<nil>"

HasPrefix(s, p) == Len(s) >= Len(p) /\ SubSeq(s, 1, Len(p)) = p

HasSuffix(s, p) == Len(s) >= Len(p) /\ SubSeq(s, Len(s) - Len(p) + 1, Len(s)) = p

Contains(s, p) == \E i \in 0..(Len(s) - Len(p)) : SubSeq(s, i + 1, i + Len(p)) = p

TrimPrefix(s, p) == IF HasPrefix(s, p) THEN SubSeq(s, Len(p) + 1, Len(s)) ELSE s

\* The first index at which p occurs in s, 0 when it does not occur.
IndexOf(s, p) ==
    IF Contains(s, p)
    THEN CHOOSE i \in 1..(Len(s) - Len(p) + 1) :
            /\ SubSeq(s, i, i + Len(p) - 1) = p
            /\ \A j \in 1..(i - 1) : SubSeq(s, j, j + Len(p) - 1) # p
    ELSE 0

LowerChar(c) ==
    CASE c = "A" -> "a" [] c = "B" -> "b" [] c = "C" -> "c" [] c = "D" -> "d"
      [] c = "E" -> "e" [] c = "F" -> "f" [] c = "G" -> "g" [] c = "H" -> "h"
      [] c = "I" -> "i" [] c = "J" -> "j" [] c = "K" -> "k" [] c = "L" -> "l"
      [] c = "M" -> "m" [] c = "N" -> "n" [] c = "O" -> "o" [] c = "P" -> "p"
      [] c = "Q" -> "q" [] c = "R" -> "r" [] c = "S" -> "s" [] c = "T" -> "t"
      [] c = "U" -> "u" [] c = "V" -> "v" [] c = "W" -> "w" [] c = "X" -> "x"
      [] c = "Y" -> "y" [] c = "Z" -> "z" [] OTHER -> c

RECURSIVE ToLower(_)
ToLower(s) ==
    IF Len(s) = 0 THEN ""
    ELSE LowerChar(SubSeq(s, 1, 1)) \o ToLower(SubSeq(s, 2, Len(s)))

\* strings.Split(s, sep) for a one-byte separator: always at least one part.
RECURSIVE Split(_, _)
Split(s, sep) ==
    LET i == IndexOf(s, sep)
    IN  IF i = 0 THEN <<s>>
        ELSE <<SubSeq(s, 1, i - 1)>> \o Split(SubSeq(s, i + 1, Len(s)), sep)

\* strings.SplitN(s, sep, n) for n >= 1: at most n parts, the last one unsplit.
RECURSIVE SplitN(_, _, _)
SplitN(s, sep, n) ==
    LET i == IndexOf(s, sep)
    IN  IF n <= 1 \/ i = 0 THEN <<s>>
        ELSE <<SubSeq(s, 1, i - 1)>> \o SplitN(SubSeq(s, i + 1, Len(s)), sep, n - 1)

IsSpace(c) == c \in {" ", "\t", "\n", "\r"}

\* strings.Fields(s): the maximal runs of non-space bytes, in order.
RECURSIVE FieldsFrom(_, _)
FieldsFrom(s, cur) ==
    IF Len(s) = 0 THEN (IF cur = "" THEN <<>> ELSE <<cur>>)
    ELSE IF IsSpace(SubSeq(s, 1, 1))
         THEN (IF cur = "" THEN <<>> ELSE <<cur>>) \o FieldsFrom(SubSeq(s, 2, Len(s)), "")
         ELSE FieldsFrom(SubSeq(s, 2, Len(s)), cur \o SubSeq(s, 1, 1))

Fields(s) == FieldsFrom(s, "")

(***************************************************************************)
(* Name-pattern classifier.                                                *)
(***************************************************************************)

isQuickTagCreatedName(name, resourceType) ==
    CASE resourceType = "instance" ->
            \/ HasPrefix(name, "instance-ami-")
            \/ HasPrefix(name, "unknown-instance")
      [] resourceType = "volume" ->
            \/ name = "unattached"
            \/ HasPrefix(name, "unattached-")
            \/ HasPrefix(name, "unknown-")
      [] resourceType = "eni" ->
            \/ name = "unattached-eni"
            \/ (HasPrefix(name, "service-") /\ HasSuffix(name, "-eni"))
            \/ (HasPrefix(name, "attached-") /\ HasSuffix(name, "-eni"))
            \/ (HasPrefix(name, "lambda-") /\ HasSuffix(name, "-eni"))
            \/ (HasPrefix(name, "rds-") /\ HasSuffix(name, "-eni"))
            \/ (HasPrefix(name, "elasticache-") /\ HasSuffix(name, "-eni"))
            \/ (HasPrefix(name, "elb-") /\ HasSuffix(name, "-eni"))
            \/ (HasPrefix(name, "nat-") /\ HasSuffix(name, "-eni"))
            \/ HasPrefix(name, "rds-eni-attach-")
            \/ HasPrefix(name, "elasticache-eni-attach-")
            \/ HasPrefix(name, "elb-eni-attach-")
            \/ HasPrefix(name, "lambda-eni-attach-")
            \/ HasPrefix(name, "nat-eni-attach-")
            \/ HasPrefix(name, "service-eni-attach-")
            \/ HasPrefix(name, "rds-ela-attach-")
            \/ HasPrefix(name, "elasticache-ela-attach-")
            \/ HasPrefix(name, "elb-ela-attach-")
            \/ HasPrefix(name, "lambda-ela-attach-")
            \/ HasPrefix(name, "nat-ela-attach-")
            \/ HasPrefix(name, "service-ela-attach-")
            \/ (Contains(name, "-attach-") /\ HasSuffix(name, "-eni"))
            \/ (HasPrefix(name, "eni-") /\ Len(name) >= 21 /\ Len(name) <= 25)
            \/ name = ""
            \/ HasPrefix(name, "Network interface")
            \/ (Contains(name, "primary") /\ Contains(name, "interface"))
      [] OTHER -> FALSE

\* A variant of isQuickTagNameStillValid without its first test: every name
\* goes through the per-kind rules.
isQuickTagNameStillValidAnyName(name, resourceType, currentState, extraInfo) ==
    CASE resourceType = "instance" -> TRUE
      [] resourceType = "volume" ->
            IF name = "unattached" \/ HasPrefix(name, "unattached-")
            THEN currentState = "available" \/ extraInfo = "unattached"
            ELSE TRUE
      [] resourceType = "eni" ->
            IF name = "unattached-eni" THEN extraInfo = "unattached"
            ELSE IF HasPrefix(name, "unattached-") THEN extraInfo = "unattached"
            ELSE IF Contains(name, "-eni") THEN extraInfo # "unattached"
            ELSE TRUE
      [] OTHER -> TRUE

\* A variant of isQuickTagNameStillValid that wants a volume named
\* "unattached" to be both available and without attachment.
isQuickTagNameStillValidBothVolume(name, resourceType, currentState, extraInfo) ==
    IF ~isQuickTagCreatedName(name, resourceType) THEN TRUE
    ELSE CASE resourceType = "instance" -> TRUE
           [] resourceType = "volume" ->
                IF name = "unattached" \/ HasPrefix(name, "unattached-")
                THEN currentState = "available" /\ extraInfo = "unattached"
                ELSE TRUE
           [] resourceType = "eni" ->
                IF name = "unattached-eni" THEN extraInfo = "unattached"
                ELSE IF HasPrefix(name, "unattached-") THEN extraInfo = "unattached"
                ELSE IF Contains(name, "-eni") THEN extraInfo # "unattached"
                ELSE TRUE
           [] OTHER -> TRUE

\* A variant of isQuickTagNameStillValid that tests an ENI name for "-eni"
\* before it tests it for "unattached".
isQuickTagNameStillValidEniFirst(name, resourceType, currentState, extraInfo) ==
    IF ~isQuickTagCreatedName(name, resourceType) THEN TRUE
    ELSE CASE resourceType = "instance" -> TRUE
           [] resourceType = "volume" ->
                IF name = "unattached" \/ HasPrefix(name, "unattached-")
                THEN currentState = "available" \/ extraInfo = "unattached"
                ELSE TRUE
           [] resourceType = "eni" ->
                IF Contains(name, "-eni") THEN extraInfo # "unattached"
                ELSE IF HasPrefix(name, "unattached-") THEN extraInfo = "unattached"
                ELSE TRUE
           [] OTHER -> TRUE

\* A variant of isQuickTagNameStillValid that takes every other self-generated
\* ENI name for the name of an attached interface.
isQuickTagNameStillValidEniElseAttached(name, resourceType, currentState, extraInfo) ==
    IF ~isQuickTagCreatedName(name, resourceType) THEN TRUE
    ELSE CASE resourceType = "instance" -> TRUE
           [] resourceType = "volume" ->
                IF name = "unattached" \/ HasPrefix(name, "unattached-")
                THEN currentState = "available" \/ extraInfo = "unattached"
                ELSE TRUE
           [] resourceType = "eni" ->
                IF name = "unattached-eni" THEN extraInfo = "unattached"
                ELSE IF HasPrefix(name, "unattached-") THEN extraInfo = "unattached"
                ELSE extraInfo # "unattached"
           [] OTHER -> TRUE

isQuickTagNameStillValid(name, resourceType, currentState, extraInfo) ==
    IF ~isQuickTagCreatedName(name, resourceType) THEN TRUE
    ELSE CASE resourceType = "instance" -> TRUE
           [] resourceType = "volume" ->
                IF name = "unattached"
                THEN currentState = "available" \/ extraInfo = "unattached"
                ELSE IF HasPrefix(name, "unattached-")
                     THEN currentState = "available" \/ extraInfo = "unattached"
                     ELSE TRUE
           [] resourceType = "eni" ->
                IF name = "unattached-eni" THEN extraInfo = "unattached"
                ELSE IF HasPrefix(name, "unattached-") THEN extraInfo = "unattached"
                ELSE IF Contains(name, "-eni") THEN extraInfo # "unattached"
                ELSE TRUE
           [] OTHER -> TRUE

(***************************************************************************)
(* Attachment resolver.                                                    *)
(*                                                                         *)
(* A raw volume is [id, nameTag, state, attachments], attachments a        *)
(* sequence of [instanceId, device]; a raw ENI is [id, nameTag, status,    *)
(* attached, instanceId, attachmentId, description]; a raw instance is     *)
(* [id, nameTag, state, imageId].  nameTag is the value of the first tag   *)
(* with key "Name" and a non-nil value, Nil when there is none.            *)
(***************************************************************************)

getVolumeMountPoint(volume) ==
    IF Len(volume.attachments) = 0 THEN "unattached"
    ELSE IF volume.attachments[1].device # Nil THEN volume.attachments[1].device
    ELSE "unknown"

\* The loop of extractELBName from token i on.
RECURSIVE extractELBNameFrom(_, _)
extractELBNameFrom(parts, i) ==
    IF i > Len(parts) THEN ""
    ELSE IF ToLower(parts[i]) = "elb" /\ i + 1 <= Len(parts)
              /\ Len(Split(parts[i + 1], "/")) >= 2
         THEN Split(parts[i + 1], "/")[2]
         ELSE extractELBNameFrom(parts, i + 1)

\* A variant of extractELBName that looks at the first token equal to "elb"
\* only.
extractELBNameFirstToken(description) ==
    LET parts == Fields(description)
        hits  == {i \in 1..Len(parts) : ToLower(parts[i]) = "elb"}
        first == CHOOSE i \in hits : \A h \in hits : i <= h
    IN  IF hits = {} THEN ""
        ELSE IF first + 1 > Len(parts) THEN ""
        ELSE IF Len(Split(parts[first + 1], "/")) >= 2
             THEN Split(parts[first + 1], "/")[2]
             ELSE ""

extractELBName(description) == extractELBNameFrom(Fields(description), 1)

\* A variant of getENIAttachmentInfo that looks for "nat" first.
getENIAttachmentInfoNatFirst(eni) ==
    IF ~eni.attached THEN "unattached"
    ELSE IF eni.instanceId # Nil THEN "attached-to-" \o eni.instanceId
    ELSE IF eni.attachmentId # Nil
    THEN LET desc == IF eni.description # Nil THEN ToLower(eni.description) ELSE ""
             attachmentType ==
                 IF eni.description = Nil THEN "service"
                 ELSE IF Contains(desc, "nat") THEN "nat"
                 ELSE IF Contains(desc, "lambda") THEN "lambda"
                 ELSE IF Contains(desc, "rds") THEN "rds"
                 ELSE IF Contains(desc, "elasticache") \/ Contains(desc, "cache")
                      THEN "elasticache"
                 ELSE IF Contains(desc, "elb") \/ Contains(desc, "load balancer")
                      THEN "elb"
                 ELSE "service"
         IN  IF attachmentType = "elb" /\ extractELBName(eni.description) # ""
             THEN "attached-elb-" \o extractELBName(eni.description)
             ELSE "attached-" \o attachmentType \o "-" \o eni.attachmentId
    ELSE "attached-unknown"

getENIAttachmentInfo(eni) ==
    IF ~eni.attached THEN "unattached"
    ELSE IF eni.instanceId # Nil THEN "attached-to-" \o eni.instanceId
    ELSE IF eni.attachmentId # Nil
    THEN LET desc == IF eni.description # Nil THEN ToLower(eni.description) ELSE ""
             isELB == /\ eni.description # Nil
                      /\ ~Contains(desc, "lambda")
                      /\ ~Contains(desc, "rds")
                      /\ ~(Contains(desc, "elasticache") \/ Contains(desc, "cache"))
                      /\ (Contains(desc, "elb") \/ Contains(desc, "load balancer"))
             attachmentType ==
                 IF eni.description = Nil THEN "service"
                 ELSE IF Contains(desc, "lambda") THEN "lambda"
                 ELSE IF Contains(desc, "rds") THEN "rds"
                 ELSE IF Contains(desc, "elasticache") \/ Contains(desc, "cache")
                      THEN "elasticache"
                 ELSE IF Contains(desc, "elb") \/ Contains(desc, "load balancer")
                      THEN "elb"
                 ELSE IF Contains(desc, "nat") THEN "nat"
                 ELSE "service"
         IN  IF isELB /\ extractELBName(eni.description) # ""
             THEN "attached-elb-" \o extractELBName(eni.description)
             ELSE "attached-" \o attachmentType \o "-" \o eni.attachmentId
    ELSE "attached-unknown"

(***************************************************************************)
(* Scan: which resources need tagging.                                     *)
(***************************************************************************)

\* var currentName string: the Name tag's value, "" when there is no such tag.
currentNameOf(res) == IF res.nameTag # Nil THEN res.nameTag ELSE ""

\* main.go:232.  The image id is dereferenced only when Go's && reaches it.
instanceNeedsTagging(instance) ==
    LET hasNameTag  == instance.nameTag # Nil
        currentName == currentNameOf(instance)
    IN  \/ ~hasNameTag
        \/ /\ hasNameTag
           /\ isQuickTagCreatedName(currentName, "instance")
           /\ ~isQuickTagNameStillValid(currentName, "instance", instance.state,
                                        instance.imageId)

\* *instance.ImageId on a nil image id: a nil pointer dereference (panic).
instanceScanPanics(instance) ==
    /\ instance.state # "terminated"
    /\ instance.nameTag # Nil
    /\ isQuickTagCreatedName(currentNameOf(instance), "instance")
    /\ instance.imageId = Nil

\* main.go:216 and 233: terminated instances and instances without an image
\* id are left out.
instanceIsCandidate(instance) ==
    /\ instance.state # "terminated"
    /\ instanceNeedsTagging(instance)
    /\ instance.imageId # Nil

volumeNeedsTagging(volume) ==
    LET hasNameTag  == volume.nameTag # Nil
        currentName == currentNameOf(volume)
    IN  \/ ~hasNameTag
        \/ /\ hasNameTag
           /\ isQuickTagCreatedName(currentName, "volume")
           /\ ~isQuickTagNameStillValid(currentName, "volume", volume.state,
                                        getVolumeMountPoint(volume))

\* A scan that lists only the ENIs without a Name tag.
eniNeedsTaggingUntaggedOnly(eni) == eni.nameTag = Nil

eniNeedsTagging(eni) ==
    LET hasNameTag  == eni.nameTag # Nil
        currentName == currentNameOf(eni)
    IN  \/ ~hasNameTag
        \/ /\ hasNameTag
           /\ isQuickTagCreatedName(currentName, "eni")
           /\ ~isQuickTagNameStillValid(currentName, "eni", eni.status,
                                        getENIAttachmentInfo(eni))

(***************************************************************************)
(* Batch lookups.  A Go map is a function whose DOMAIN is the key set.     *)
(* `images` and `described` are what the provider returned: sets of        *)
(* [id, name] and [id, nameTag] records.                                   *)
(***************************************************************************)

\* getAMINames: an image counts when both its id and its name are non-nil.
getAMINames(amiIDs, images) ==
    IF amiIDs = {} THEN <<>>
    ELSE [id \in {im.id : im \in {x \in images : x.id # Nil /\ x.name # Nil}} |->
            (CHOOSE im \in images : im.id = id /\ im.name # Nil).name]

\* A variant of getInstanceNames that leaves out the instances without a
\* Name tag.
getInstanceNamesTaggedOnly(instanceIDs, described) ==
    IF instanceIDs = {} THEN <<>>
    ELSE [id \in {d.id : d \in {x \in described : x.id # Nil /\ x.nameTag # Nil}} |->
            (CHOOSE x \in described : x.id = id).nameTag]

\* getInstanceNames and getAttachmentNames (the same body): the Name tag of
\* every returned instance, the instance id when it has none.
getInstanceNames(instanceIDs, described) ==
    IF instanceIDs = {} THEN <<>>
    ELSE [id \in {d.id : d \in {x \in described : x.id # Nil}} |->
            LET d == CHOOSE x \in described : x.id = id
            IN  IF d.nameTag # Nil THEN d.nameTag ELSE id]

getAttachmentNames(attachmentIDs, described) ==
    getInstanceNames(attachmentIDs, described)

\* The batch sizes of getAMINames (main.go:458) and getInstanceNames
\* (main.go:495).
amiBatchSize == 200

instanceBatchSize == 1000

Min(a, b) == IF a < b THEN a ELSE b

Range(seq) == {seq[k] : k \in 1..Len(seq)}

\* A variant of batchesFrom whose batches all have batchSize ids: after the
\* first one each goes back far enough to be full.
RECURSIVE batchesFromFull(_, _, _)
batchesFromFull(slice, i, batchSize) ==
    IF i < Len(slice)
    THEN LET end == Min(i + batchSize, Len(slice))
         IN  <<SubSeq(slice, IF end - batchSize < 0 THEN 1 ELSE end - batchSize + 1, end)>>
                \o batchesFromFull(slice, i + batchSize, batchSize)
    ELSE <<>>

\* The loop `for i := 0; i < len(slice); i += batchSize` with
\* `batch := slice[i:min(i+batchSize, len(slice))]`: the batches, in order.
RECURSIVE batchesFrom(_, _, _)
batchesFrom(slice, i, batchSize) ==
    IF i < Len(slice)
    THEN <<SubSeq(slice, i + 1, Min(i + batchSize, Len(slice)))>>
            \o batchesFrom(slice, i + batchSize, batchSize)
    ELSE <<>>

\* The map a lookup has filled after its first n batches: a later batch
\* overwrites the keys it shares with an earlier one.
RECURSIVE mergedNames(_, _)
mergedNames(perBatch, n) ==
    IF n = 0 THEN <<>> ELSE perBatch[n] @@ mergedNames(perBatch, n - 1)

\* A batch lookup as the code runs it on a slice of ids: `answer` is the
\* provider (what it returns for a set of ids), failAt the call that returns
\* an error (0 when none does).  calls are the batches sent, in order.
lookupInBatches(slice, batchSize, namesOf(_), failAt) ==
    IF Len(slice) = 0 THEN [calls |-> <<>>, err |-> FALSE, names |-> <<>>]
    ELSE LET batches == batchesFrom(slice, 0, batchSize)
             failed  == failAt \in 1..Len(batches)
         IN  [calls |-> IF failed THEN SubSeq(batches, 1, failAt) ELSE batches,
              err   |-> failed,
              names |-> IF failed THEN Nil
                        ELSE mergedNames([k \in 1..Len(batches) |-> namesOf(batches[k])],
                                         Len(batches))]

\* getAMINames on the slice of the map's keys, against the provider's images.
getAMINamesInBatches(amiIDSlice, allImages, failAt) ==
    LET namesOf(batch) ==
            getAMINames(Range(batch), {im \in allImages : im.id \in Range(batch)})
    IN  lookupInBatches(amiIDSlice, amiBatchSize, namesOf, failAt)

\* getInstanceNames on the slice of the map's keys, against the provider's
\* instances.
getInstanceNamesInBatches(instanceIDSlice, allInstances, failAt) ==
    LET namesOf(batch) ==
            getInstanceNames(Range(batch),
                             {d \in allInstances : d.id \in Range(batch)})
    IN  lookupInBatches(instanceIDSlice, instanceBatchSize, namesOf, failAt)

(***************************************************************************)
(* Name suggestion engine and the three scans.  A scan returns             *)
(* [err, list]: list is the sequence of ResourceInfo records.              *)
(***************************************************************************)

ResourceInfo(id, type, name, suggested, state, extra) ==
    [ID |-> id, Type |-> type, Name |-> name, SuggestedName |-> suggested,
     State |-> state, Extra |-> extra]

instanceSuggestion(extra, amiNames) ==
    IF extra \in DOMAIN amiNames THEN amiNames[extra] ELSE "instance-" \o extra

\* findUntaggedInstances without its provider calls: `images` is the answer
\* of DescribeImages for the collected AMI ids.
findUntaggedInstances(listing, images) ==
    LET kept     == SelectSeq(listing, instanceIsCandidate)
        amiIDs   == {kept[i].imageId : i \in 1..Len(kept)}
        amiNames == getAMINames(amiIDs, images)
    IN  [i \in 1..Len(kept) |->
            ResourceInfo(kept[i].id, "instance", currentNameOf(kept[i]),
                         instanceSuggestion(kept[i].imageId, amiNames),
                         kept[i].state, kept[i].imageId)]

\* main.go:327-337.  attachedInstanceID is getVolumeInstanceID's answer.
volumeSuggestion(attachedInstanceID, extra, instanceNames) ==
    IF attachedInstanceID # ""
    THEN IF attachedInstanceID \in DOMAIN instanceNames
         THEN attachedInstanceID \o "(" \o instanceNames[attachedInstanceID] \o ") " \o extra
         ELSE attachedInstanceID \o " " \o extra
    ELSE "unattached"

\* getVolumeInstanceID: `now` is the answer of the second DescribeVolumes
\* call, [err, volumes].
getVolumeInstanceID(now) ==
    IF now.err \/ Len(now.volumes) = 0 THEN ""
    ELSE IF Len(now.volumes[1].attachments) = 0 THEN ""
    ELSE IF now.volumes[1].attachments[1].instanceId # Nil
         THEN now.volumes[1].attachments[1].instanceId
    ELSE ""

\* nowOf[id] is the answer of the per-volume DescribeVolumes call.
findUntaggedVolumes(listing, described, nowOf) ==
    LET kept          == SelectSeq(listing, volumeNeedsTagging)
        instanceIDs   == UNION {{kept[i].attachments[j].instanceId :
                                    j \in 1..Len(kept[i].attachments)} :
                                 i \in 1..Len(kept)} \ {Nil}
        instanceNames == getInstanceNames(instanceIDs, described)
    IN  [i \in 1..Len(kept) |->
            ResourceInfo(kept[i].id, "volume", currentNameOf(kept[i]),
                         volumeSuggestion(getVolumeInstanceID(nowOf[kept[i].id]),
                                          getVolumeMountPoint(kept[i]), instanceNames),
                         kept[i].state, getVolumeMountPoint(kept[i]))]

\* A variant of eniSuggestion whose names lack the "-eni" suffix.
eniSuggestionBare(extra, attachmentNames) ==
    IF HasPrefix(extra, "attached-to-")
    THEN LET instanceID == TrimPrefix(extra, "attached-to-")
         IN  IF instanceID \in DOMAIN attachmentNames
             THEN [SuggestedName |-> attachmentNames[instanceID],
                   Extra |-> instanceID \o " (" \o attachmentNames[instanceID] \o ")"]
             ELSE [SuggestedName |-> instanceID, Extra |-> instanceID]
    ELSE IF HasPrefix(extra, "attached-")
    THEN LET parts == SplitN(extra, "-", 3)
         IN  IF Len(parts) >= 3
             THEN IF parts[2] = "elb"
                  THEN [SuggestedName |-> parts[3], Extra |-> "elb-" \o parts[3]]
                  ELSE [SuggestedName |-> parts[2] \o "-" \o parts[3],
                        Extra |-> parts[2] \o "-attachment-" \o parts[3]]
             ELSE LET attachmentID == TrimPrefix(extra, "attached-")
                  IN  [SuggestedName |-> "service-" \o attachmentID,
                       Extra |-> "service-attachment-" \o attachmentID]
    ELSE [SuggestedName |-> "unattached", Extra |-> "unattached"]

\* A variant of eniSuggestion that splits the token at every "-".
eniSuggestionSplitAll(extra, attachmentNames) ==
    IF HasPrefix(extra, "attached-to-")
    THEN LET instanceID == TrimPrefix(extra, "attached-to-")
         IN  IF instanceID \in DOMAIN attachmentNames
             THEN [SuggestedName |-> attachmentNames[instanceID] \o "-eni",
                   Extra |-> instanceID \o " (" \o attachmentNames[instanceID] \o ")"]
             ELSE [SuggestedName |-> instanceID \o "-eni", Extra |-> instanceID]
    ELSE IF HasPrefix(extra, "attached-")
    THEN LET parts == Split(extra, "-")
         IN  IF Len(parts) >= 3
             THEN IF parts[2] = "elb"
                  THEN [SuggestedName |-> parts[3] \o "-eni",
                        Extra |-> "elb-" \o parts[3]]
                  ELSE [SuggestedName |-> parts[2] \o "-" \o parts[3] \o "-eni",
                        Extra |-> parts[2] \o "-attachment-" \o parts[3]]
             ELSE LET attachmentID == TrimPrefix(extra, "attached-")
                  IN  [SuggestedName |-> "service-" \o attachmentID \o "-eni",
                       Extra |-> "service-attachment-" \o attachmentID]
    ELSE [SuggestedName |-> "unattached-eni", Extra |-> "unattached"]

\* main.go:401-438: the suggested name and the rewritten Extra of one ENI.
eniSuggestion(extra, attachmentNames) ==
    IF HasPrefix(extra, "attached-to-")
    THEN LET instanceID == TrimPrefix(extra, "attached-to-")
         IN  IF instanceID \in DOMAIN attachmentNames
             THEN [SuggestedName |-> attachmentNames[instanceID] \o "-eni",
                   Extra |-> instanceID \o " (" \o attachmentNames[instanceID] \o ")"]
             ELSE [SuggestedName |-> instanceID \o "-eni", Extra |-> instanceID]
    ELSE IF HasPrefix(extra, "attached-")
    THEN LET parts == SplitN(extra, "-", 3)
         IN  IF Len(parts) >= 3
             THEN IF parts[2] = "elb"
                  THEN [SuggestedName |-> parts[3] \o "-eni",
                        Extra |-> "elb-" \o parts[3]]
                  ELSE [SuggestedName |-> parts[2] \o "-" \o parts[3] \o "-eni",
                        Extra |-> parts[2] \o "-attachment-" \o parts[3]]
             ELSE LET attachmentID == TrimPrefix(extra, "attached-")
                  IN  [SuggestedName |-> "service-" \o attachmentID \o "-eni",
                       Extra |-> "service-attachment-" \o attachmentID]
    ELSE [SuggestedName |-> "unattached-eni", Extra |-> "unattached"]

findUntaggedENIs(listing, described) ==
    LET kept            == SelectSeq(listing, eniNeedsTagging)
        attachmentIDs   == {kept[i].instanceId :
                               i \in {j \in 1..Len(kept) : kept[j].attached}} \ {Nil}
        attachmentNames == getAttachmentNames(attachmentIDs, described)
    IN  [i \in 1..Len(kept) |->
            LET sug == eniSuggestion(getENIAttachmentInfo(kept[i]), attachmentNames)
            IN  ResourceInfo(kept[i].id, "eni", currentNameOf(kept[i]),
                             sug.SuggestedName, kept[i].status, sug.Extra)]

(***************************************************************************)
(* findUntaggedResources' final sort: by Type, then by ID, both compared    *)
(* as Go compares strings (byte by byte).                                  *)
(***************************************************************************)

\* The bytes the model's strings are made of, in ASCII order.
Alphabet == " ()-./0123456789<>ABCDEFGHIJKLMNOPQRSTUVWXYZabcdefghijklmnopqrstuvwxyz"

Ord(c) == IndexOf(Alphabet, c)

RECURSIVE StrLess(_, _)
StrLess(a, b) ==
    IF Len(b) = 0 THEN FALSE
    ELSE IF Len(a) = 0 THEN TRUE
    ELSE IF SubSeq(a, 1, 1) # SubSeq(b, 1, 1)
         THEN Ord(SubSeq(a, 1, 1)) < Ord(SubSeq(b, 1, 1))
    ELSE StrLess(SubSeq(a, 2, Len(a)), SubSeq(b, 2, Len(b)))

\* The less function handed to sort.Slice.
resourceLess(x, y) ==
    IF x.Type # y.Type THEN StrLess(x.Type, y.Type) ELSE StrLess(x.ID, y.ID)

RECURSIVE InsertSorted(_, _)
InsertSorted(sorted, x) ==
    IF sorted = <<>> THEN <<x>>
    ELSE IF resourceLess(x, Head(sorted)) THEN <<x>> \o sorted
    ELSE <<Head(sorted)>> \o InsertSorted(Tail(sorted), x)

RECURSIVE sortResources(_)
sortResources(resources) ==
    IF resources = <<>> THEN <<>>
    ELSE InsertSorted(sortResources(SubSeq(resources, 1, Len(resources) - 1)),
                      resources[Len(resources)])

(***************************************************************************)
(* State.                                                                  *)
(***************************************************************************)

VARIABLES
    instances,      \* the provider's instances, in listing order
    volumes,        \* the provider's volumes, in listing order
    enis,           \* the provider's network interfaces, in listing order
    images,         \* the provider's images: a set of [id, name]
    ledger,         \* the content of ~/.quick-tag.yml: a sequence of entries
    clock,          \* time.Now(), counted in ledger appends
    runCount,       \* the number of tagging runs started so far
    pc,             \* where the running invocation is; "idle" when none runs
    result,         \* how the last invocation ended
    runID,          \* main: runID
    untagged,       \* findUntaggedResources: resources
    selected,       \* main: selectedResources
    autoApply,      \* main: autoApply
    idx,            \* the loop position of applyTags / of undoLastRun's revert loop
    successCount,   \* applyTags / undoLastRun: successCount
    writes,         \* the CreateTags calls this invocation has issued, in order
    appends,        \* the addToHistory calls this invocation has made, in order
    failedCalls,    \* the provider calls of the scan that have returned an error
    history,        \* undoLastRun: history (the ledger as loaded in memory)
    lastRunID,      \* undoLastRun: lastRunID
    actionsToUndo,  \* undoLastRun: actionsToUndo
    response,       \* undoLastRun: response, Nil while no answer has been read
    saves,          \* the saveHistory calls undoLastRun has made
    undoCompleted,  \* the run ids whose undo has returned without error
    attempted,      \* the ledger entries an undo has tried to restore so far
    events,         \* the provider-side events so far
    call,           \* the function called on its own, with its arguments
    ret,            \* what that call returned
    gpc,            \* where each goroutine of a tagging invocation is
    step,           \* the operation of its function a worker goroutine is at
    done,           \* showProgress: the buffer of each call's `done` channel
    throbber,       \* showProgress: i % len(throbberChars) of each waiting caller
    produced,       \* what the function wrapped by each showProgress call returned
    returned,       \* what each showProgress call returned to its caller
    inFlight,       \* the provider calls and ledger updates begun and not finished
    finished,       \* the provider calls and ledger updates finished
    plan            \* main: the selection read (how many, autoApply, the one at work)

cloudVars == <<instances, volumes, enis, images>>
runVars   == <<runID, untagged, selected, autoApply, idx, successCount, writes, appends,
               failedCalls>>
undoVars  == <<history, lastRunID, actionsToUndo, response, saves>>
fnVars    == <<call, ret>>
goVars    == <<gpc, step, done, throbber, produced, returned, inFlight, finished, plan>>
vars      == <<instances, volumes, enis, images, ledger, clock, runCount, pc, result,
               runID, untagged, selected, autoApply, idx, successCount, writes,
               appends, failedCalls, history, lastRunID, actionsToUndo, response,
               saves, undoCompleted, attempted, events, call, ret, gpc, step, done, throbber,
               produced, returned, inFlight, finished, plan>>

\* The state of the program taken as one sequence of steps.
progVars == <<cloudVars, ledger, clock, runCount, pc, result, runVars, undoVars,
              undoCompleted, attempted, events>>

(***************************************************************************)
(* Bounds of the model.                                                    *)
(***************************************************************************)

\* Tagging runs per behaviour.
MaxRuns == 2

\* Attach/detach/delete events of the provider per behaviour.
MaxEvents == 2

(***************************************************************************)
(* The provider.                                                           *)
(***************************************************************************)

RawENI(id, nameTag, status, attached, instanceId, attachmentId, description) ==
    [id |-> id, nameTag |-> nameTag, status |-> status, attached |-> attached,
     instanceId |-> instanceId, attachmentId |-> attachmentId,
     description |-> description]

RawVolume(id, nameTag, state, attachments) ==
    [id |-> id, nameTag |-> nameTag, state |-> state, attachments |-> attachments]

RawInstance(id, nameTag, state, imageId) ==
    [id |-> id, nameTag |-> nameTag, state |-> state, imageId |-> imageId]

IdsOf(seq) == {seq[i].id : i \in 1..Len(seq)}

ResourceExists(id) == id \in IdsOf(instances) \cup IdsOf(volumes) \cup IdsOf(enis)

SetNameTag(seq, id, value) ==
    [i \in 1..Len(seq) |->
        IF seq[i].id = id THEN [seq[i] EXCEPT !.nameTag = value] ELSE seq[i]]

\* The Name tag a resource carries, Nil when it has none (or is gone).
NameTagOf(id) ==
    LET all == instances \o volumes \o enis
    IN  IF \E i \in 1..Len(all) : all[i].id = id
        THEN all[CHOOSE i \in 1..Len(all) : all[i].id = id].nameTag
        ELSE Nil

\* What a successful CreateTags(Name = value) leaves on the resource.  The
\* code expects an empty value to remove the tag (main.go:988); the provider
\* may also keep the tag with an empty value.
TagLeftBy(value) == IF value = "" THEN {"", Nil} ELSE {value}

\* DescribeInstances(InstanceIds = ids): the instances among them.
DescribeInstances(ids) ==
    {[id |-> instances[i].id, nameTag |-> instances[i].nameTag] :
        i \in {j \in 1..Len(instances) : instances[j].id \in ids}}

\* An ENI is attached to a service or detached, or is deleted.
AttachENI ==
    /\ events < MaxEvents
    /\ \E i \in 1..Len(enis) :
        /\ ~enis[i].attached
        /\ enis' = [enis EXCEPT ![i].attached = TRUE, ![i].status = "in-use",
                                ![i].attachmentId = "ela-attach-1"]
    /\ events' = events + 1
    /\ UNCHANGED <<instances, volumes, images, ledger, clock, runCount, pc, result,
                   runVars, undoVars, undoCompleted, attempted>>
    /\ UNCHANGED <<fnVars, goVars>>

DetachENI ==
    /\ events < MaxEvents
    /\ \E i \in 1..Len(enis) :
        /\ enis[i].attached
        /\ enis' = [enis EXCEPT ![i].attached = FALSE, ![i].status = "available",
                                ![i].attachmentId = Nil]
    /\ events' = events + 1
    /\ UNCHANGED <<instances, volumes, images, ledger, clock, runCount, pc, result,
                   runVars, undoVars, undoCompleted, attempted>>
    /\ UNCHANGED <<fnVars, goVars>>

DeleteENI ==
    /\ events < MaxEvents
    /\ \E i \in 1..Len(enis) :
        enis' = SubSeq(enis, 1, i - 1) \o SubSeq(enis, i + 1, Len(enis))
    /\ events' = events + 1
    /\ UNCHANGED <<instances, volumes, images, ledger, clock, runCount, pc, result,
                   runVars, undoVars, undoCompleted, attempted>>
    /\ UNCHANGED <<fnVars, goVars>>

(***************************************************************************)
(* A tagging run: main without --undo.                                     *)
(***************************************************************************)

\* callerIdentity.Account
Account == "123456789012"

Digit(n) == SubSeq("0123456789", n + 1, n + 1)

\* generateRunID: "run-" and 16 hex digits of crypto/rand, taken to be fresh;
\* the n-th run of a behaviour gets "run-<n>".
generateRunID(n) == "run-" \o Digit(n)

\* The locals of an invocation that has not run yet.
FreshLocals ==
    /\ untagged' = <<>>
    /\ selected' = <<>>
    /\ autoApply' = FALSE
    /\ idx' = 0
    /\ successCount' = 0
    /\ writes' = <<>>
    /\ appends' = <<>>
    /\ failedCalls' = {}
    /\ history' = <<>>
    /\ lastRunID' = ""
    /\ actionsToUndo' = <<>>
    /\ response' = Nil
    /\ saves' = 0

\* log.Fatal(err), or a returned error that main hands to log.Fatal.
Fail(msg) ==
    /\ pc' = "done"
    /\ result' = msg

\* main.go:101-122: the run id, the AWS configuration, the caller identity.
StartRun ==
    /\ pc \in {"idle", "done"}
    /\ runCount < MaxRuns
    /\ runCount' = runCount + 1
    /\ FreshLocals
    /\ runID' = generateRunID(runCount + 1)
    /\ \E authenticated \in BOOLEAN :
        IF authenticated
        THEN pc' = "scanInstances" /\ result' = "running"
        ELSE Fail("failed to authenticate with aws")
    /\ UNCHANGED <<cloudVars, ledger, clock, undoCompleted, attempted, events>>
    /\ UNCHANGED <<fnVars, goVars>>

DescribeImages(ids) == {im \in images : im.id \in ids}

\* A provider call of the scan that has returned an error: the operation and
\* what it was asked for (a page of the listing, a batch of ids, one volume).
FailedCall(op, arg) == [op |-> op, arg |-> arg]

ScanInstances ==
    /\ pc = "scanInstances"
    /\ LET kept   == SelectSeq(instances, instanceIsCandidate)
           amiIDs == {kept[i].imageId : i \in 1..Len(kept)}
       IN  \E outcome \in {"ok", "listError", "lookupError"} :
            CASE outcome = "listError" ->
                    /\ Fail("failed to find untagged instances")
                    /\ failedCalls' = {FailedCall("DescribeInstances", "page")}
                    /\ UNCHANGED untagged
              [] outcome = "lookupError" ->
                    /\ amiIDs # {}
                    /\ \A i \in 1..Len(instances) : ~instanceScanPanics(instances[i])
                    /\ Fail("failed to find untagged instances")
                    /\ failedCalls' = {FailedCall("DescribeImages", "batch")}
                    /\ UNCHANGED untagged
              [] outcome = "ok" ->
                    IF \E i \in 1..Len(instances) : instanceScanPanics(instances[i])
                    THEN /\ Fail("panic: nil pointer dereference")
                         /\ UNCHANGED <<untagged, failedCalls>>
                    ELSE /\ untagged' = untagged \o
                                findUntaggedInstances(instances, DescribeImages(amiIDs))
                         /\ pc' = "scanVolumes"
                         /\ UNCHANGED <<result, failedCalls>>
    /\ UNCHANGED <<cloudVars, ledger, clock, runCount, runID, selected, autoApply, idx,
                   successCount, writes, appends, undoVars, undoCompleted, attempted, events>>
    /\ UNCHANGED <<fnVars, goVars>>

\* What the per-volume DescribeVolumes call of getVolumeInstanceID may answer
\* for a volume: an error, nothing, the volume as listed, or the volume as
\* it has become since (detached, or attached to an instance).
VolumeAnswers(volume) ==
    {[err |-> TRUE, volumes |-> <<>>], [err |-> FALSE, volumes |-> <<>>]} \cup
    {[err |-> FALSE, volumes |-> <<[volume EXCEPT !.attachments = a]>>] :
        a \in {volume.attachments, <<>>,
               <<[instanceId |-> "i-1", device |-> "/dev/sdf"]>>}}

ScanVolumes ==
    /\ pc = "scanVolumes"
    /\ LET kept        == SelectSeq(volumes, volumeNeedsTagging)
           instanceIDs == UNION {{kept[i].attachments[j].instanceId :
                                     j \in 1..Len(kept[i].attachments)} :
                                 i \in 1..Len(kept)} \ {Nil}
       IN  \E outcome \in {"ok", "listError", "lookupError"} :
            CASE outcome = "listError" ->
                    /\ Fail("failed to find untagged volumes")
                    /\ failedCalls' = {FailedCall("DescribeVolumes", "page")}
                    /\ UNCHANGED untagged
              [] outcome = "lookupError" ->
                    /\ instanceIDs # {}
                    /\ Fail("failed to find untagged volumes")
                    /\ failedCalls' = {FailedCall("DescribeInstances", "batch")}
                    /\ UNCHANGED untagged
              [] outcome = "ok" ->
                    \E nowOf \in [IdsOf(kept) -> UNION {VolumeAnswers(kept[i]) :
                                                          i \in 1..Len(kept)}] :
                        /\ \A i \in 1..Len(kept) :
                              nowOf[kept[i].id] \in VolumeAnswers(kept[i])
                        /\ untagged' = untagged \o
                              findUntaggedVolumes(volumes, DescribeInstances(instanceIDs),
                                                  nowOf)
                        /\ failedCalls' = {FailedCall("DescribeVolumes", kept[i].id) :
                                              i \in {j \in 1..Len(kept) :
                                                         nowOf[kept[j].id].err}}
                        /\ pc' = "scanENIs"
                        /\ UNCHANGED result
    /\ UNCHANGED <<cloudVars, ledger, clock, runCount, runID, selected, autoApply, idx,
                   successCount, writes, appends, undoVars, undoCompleted, attempted, events>>
    /\ UNCHANGED <<fnVars, goVars>>

\* findUntaggedENIs, then the sort of findUntaggedResources and main.go:132.
ScanENIs ==
    /\ pc = "scanENIs"
    /\ LET kept          == SelectSeq(enis, eniNeedsTagging)
           attachmentIDs == {kept[i].instanceId :
                                i \in {j \in 1..Len(kept) : kept[j].attached}} \ {Nil}
       IN  \E outcome \in {"ok", "listError", "lookupError"} :
            CASE outcome = "listError" ->
                    /\ Fail("failed to find untagged ENIs")
                    /\ failedCalls' = failedCalls \cup
                                          {FailedCall("DescribeNetworkInterfaces", "page")}
                    /\ UNCHANGED untagged
              [] outcome = "lookupError" ->
                    /\ attachmentIDs # {}
                    /\ Fail("failed to find untagged ENIs")
                    /\ failedCalls' = failedCalls \cup
                                          {FailedCall("DescribeInstances", "batch")}
                    /\ UNCHANGED untagged
              [] outcome = "ok" ->
                    LET all == sortResources(untagged \o
                                  findUntaggedENIs(enis, DescribeInstances(attachmentIDs)))
                    IN  /\ untagged' = all
                        /\ UNCHANGED failedCalls
                        /\ IF Len(all) = 0
                           THEN pc' = "done" /\ result' = "ok: nothing to tag"
                           ELSE pc' = "select" /\ UNCHANGED result
    /\ UNCHANGED <<cloudVars, ledger, clock, runCount, runID, selected, autoApply, idx,
                   successCount, writes, appends, undoVars, undoCompleted, attempted, events>>
    /\ UNCHANGED <<fnVars, goVars>>

RECURSIVE TrimLeft(_)
TrimLeft(s) ==
    IF Len(s) > 0 /\ IsSpace(SubSeq(s, 1, 1)) THEN TrimLeft(SubSeq(s, 2, Len(s))) ELSE s

RECURSIVE TrimRight(_)
TrimRight(s) ==
    IF Len(s) > 0 /\ IsSpace(SubSeq(s, Len(s), Len(s)))
    THEN TrimRight(SubSeq(s, 1, Len(s) - 1)) ELSE s

TrimSpace(s) == TrimRight(TrimLeft(s))

IsDigit(c) == Contains("0123456789", c) /\ Len(c) = 1

DigitValue(c) == IndexOf("0123456789", c) - 1

RECURSIVE DigitsValue(_, _)
DigitsValue(s, acc) ==
    IF Len(s) = 0 THEN acc
    ELSE DigitsValue(SubSeq(s, 2, Len(s)), acc * 10 + DigitValue(SubSeq(s, 1, 1)))

\* strconv.Atoi on the short inputs of the model: an optional sign and digits.
Atoi(s) ==
    LET signed == Len(s) > 0 /\ SubSeq(s, 1, 1) \in {"+", "-"}
        digits == IF signed THEN SubSeq(s, 2, Len(s)) ELSE s
        ok     == Len(digits) > 0 /\ \A i \in 1..Len(digits) : IsDigit(SubSeq(digits, i, i))
    IN  [ok  |-> ok,
         val |-> IF ~ok THEN 0
                 ELSE IF signed /\ SubSeq(s, 1, 1) = "-" THEN 0 - DigitsValue(digits, 0)
                 ELSE DigitsValue(digits, 0)]

\* The selections named by the comma-separated parts, in the order typed.
RECURSIVE pickParts(_, _)
pickParts(parts, resources) ==
    IF parts = <<>> THEN <<>>
    ELSE LET n == Atoi(TrimSpace(Head(parts)))
         IN  (IF n.ok /\ n.val >= 1 /\ n.val <= Len(resources)
              THEN <<resources[n.val]>> ELSE <<>>) \o pickParts(Tail(parts), resources)

\* selectResources: `line` is the line read from the terminal.
selectResources(resources, line) ==
    LET input == TrimSpace(line)
    IN  IF input = "" THEN [selected |-> resources, autoApply |-> FALSE]
        ELSE IF ToLower(input) = "all" THEN [selected |-> resources, autoApply |-> TRUE]
        ELSE [selected |-> pickParts(Split(input, ","), resources), autoApply |-> FALSE]

\* What the operator may type at the selection prompt.
SelectionLines == {"\n", "all\n", "ALL\n", "1\n", "2\n", "1,2\n", "2, 1\n", "1,1\n",
                   "3\n", "x,1\n"}

\* main.go:139-144 with selectResources; a failed read ends in log.Fatal.
Select ==
    /\ pc = "select"
    /\ \/ /\ Fail("failed to read selection")
          /\ UNCHANGED <<selected, autoApply, idx>>
       \/ \E line \in SelectionLines :
            LET sel == selectResources(untagged, line)
            IN  /\ selected' = sel.selected
                /\ autoApply' = sel.autoApply
                /\ IF Len(sel.selected) = 0
                   THEN pc' = "done" /\ result' = "ok: nothing selected" /\ UNCHANGED idx
                   ELSE pc' = "apply" /\ idx' = 1 /\ UNCHANGED result
    /\ UNCHANGED <<cloudVars, ledger, clock, runCount, runID, untagged, successCount,
                   writes, appends, failedCalls, undoVars, undoCompleted, attempted, events>>
    /\ UNCHANGED <<fnVars, goVars>>

(***************************************************************************)
(* The history ledger.                                                     *)
(***************************************************************************)

TagHistoryEntry(account, resource, oldValue, newValue, timestamp, run) ==
    [Account |-> account, Resource |-> resource, OldValue |-> oldValue,
     NewValue |-> newValue, Timestamp |-> timestamp, RunID |-> run, Undone |-> FALSE]

\* A variant of addToHistory that saves the new entry alone.
addToHistoryOverwrite(actions, account, resource, oldValue, newValue, run, now) ==
    <<TagHistoryEntry(account, resource, oldValue, newValue, now, run)>>

\* addToHistory between loadHistory and saveHistory: the loaded actions with
\* the new entry appended.
addToHistory(actions, account, resource, oldValue, newValue, run, now) ==
    Append(actions, TagHistoryEntry(account, resource, oldValue, newValue, now, run))

(***************************************************************************)
(* applyTags: one iteration of its loop per step.                          *)
(***************************************************************************)

\* The tag value applyTags writes for a resource.
tagValueToApply(resource) == resource.SuggestedName

\* A variant of entryToRecord with the old and the new value exchanged.
entryToRecordSwapped(resource, run, now) ==
    addToHistory(ledger, Account, resource.ID, resource.SuggestedName,
                 resource.Name, run, now)

\* The ledger entry applyTags records for a resource it has tagged.
entryToRecord(resource, run, now) ==
    addToHistory(ledger, Account, resource.ID, resource.Name,
                 resource.SuggestedName, run, now)

\* A variant of applyResult in which a failed addToHistory is an error too.
applyResultStrict(written, logged) == IF written /\ logged THEN "ok" ELSE "error"

\* main.go:1272-1283: what the closure handed to showProgress returns.  A
\* failed CreateTags is an error; a failed addToHistory is only a warning.
applyResult(written, logged) == IF written THEN "ok" ELSE "error"

\* A variant of applyContinues that never stops the loop.
applyContinuesAlways(err) == TRUE

\* main.go:1286-1293: the loop goes on only when the closure returned nil.
applyContinues(err) == err = "ok"

ApplyTag ==
    /\ pc = "apply"
    /\ idx <= Len(selected)
    /\ LET resource == selected[idx]
           value    == tagValueToApply(resource)
       IN  \/ \* the confirmation prompt cannot be read
              /\ ~autoApply
              /\ Fail("failed to read user input")
              /\ UNCHANGED <<cloudVars, ledger, clock, idx, successCount, writes, appends>>
           \/ \* CreateTags, and addToHistory when the tag is written
              \E written \in BOOLEAN, logged \in BOOLEAN :
                /\ written => ResourceExists(resource.ID)
                /\ logged => written
                /\ writes' = Append(writes,
                        [pos |-> idx, resource |-> resource.ID, value |-> value,
                         outcome |-> IF written THEN "ok" ELSE "error"])
                /\ IF written
                   THEN /\ \E left \in TagLeftBy(value) :
                            /\ instances' = SetNameTag(instances, resource.ID, left)
                            /\ volumes' = SetNameTag(volumes, resource.ID, left)
                            /\ enis' = SetNameTag(enis, resource.ID, left)
                        /\ clock' = clock + 1
                        /\ appends' = Append(appends, [pos |-> idx, ok |-> logged])
                        /\ ledger' = IF logged THEN entryToRecord(resource, runID, clock)
                                     ELSE ledger
                   ELSE UNCHANGED <<instances, volumes, enis, clock, appends, ledger>>
                /\ UNCHANGED images
                /\ IF applyContinues(applyResult(written, logged))
                   THEN /\ successCount' = successCount + 1
                        /\ idx' = idx + 1
                        /\ IF idx + 1 > Len(selected)
                           THEN pc' = "done" /\ result' = "ok"
                           ELSE UNCHANGED <<pc, result>>
                   ELSE /\ Fail("failed to tag")
                        /\ UNCHANGED <<idx, successCount>>
    /\ UNCHANGED <<runCount, runID, untagged, selected, autoApply, failedCalls,
                   undoVars, undoCompleted, attempted, events>>
    /\ UNCHANGED <<fnVars, goVars>>

(***************************************************************************)
(* undoLastRun.                                                            *)
(***************************************************************************)

\* main.go:924-931: the run id of the last entry that is not undone, "" when
\* every entry is undone.
\* A variant of findLastRunID that scans from the oldest entry.
findOldestOpenRunID(actions, i) ==
    IF \E j \in 1..i : ~actions[j].Undone
    THEN actions[CHOOSE j \in 1..i :
                    ~actions[j].Undone /\ \A h \in 1..(j - 1) : actions[h].Undone].RunID
    ELSE ""

\* A variant of findLastRunID that takes the run id of the last entry, undone
\* or not.
findLastEntryRunID(actions, i) == IF i < 1 THEN "" ELSE actions[i].RunID

\* main.go:924-931
RECURSIVE findLastRunID(_, _)
findLastRunID(actions, i) ==
    IF i < 1 THEN ""
    ELSE IF ~actions[i].Undone THEN actions[i].RunID
    ELSE findLastRunID(actions, i - 1)

\* A variant of collectActionsToUndo that collects the entries of every run
\* that are not undone.
collectAllOpen(actions, run) ==
    SelectSeq(actions, LAMBDA action : ~action.Undone)

\* main.go:938-943
collectActionsToUndo(actions, run) ==
    SelectSeq(actions, LAMBDA action : action.RunID = run /\ ~action.Undone)

\* A variant of restoreValue that writes the applied name again.
restoreValueNew(action) == action.NewValue

\* main.go:986-1009: the value the Name tag is set back to.
restoreValue(action) == IF action.OldValue = "" THEN "" ELSE action.OldValue

\* A variant of markUndone that flags nothing.
markUndoneNone(actions, run) == actions

\* A variant of markUndone that flags only the first collected entry.
markUndoneFirstOnly(actions, run) ==
    [i \in 1..Len(actions) |->
        IF /\ actions[i].RunID = run
           /\ ~actions[i].Undone
           /\ \A j \in 1..(i - 1) : actions[j].RunID # run \/ actions[j].Undone
        THEN [actions[i] EXCEPT !.Undone = TRUE]
        ELSE actions[i]]

\* main.go:1028-1032
markUndone(actions, run) ==
    [i \in 1..Len(actions) |->
        IF actions[i].RunID = run /\ ~actions[i].Undone
        THEN [actions[i] EXCEPT !.Undone = TRUE]
        ELSE actions[i]]

\* main.go:963: the answer as the code compares it.
normalizeResponse(line) == TrimSpace(ToLower(line))

\* A variant of isConfirmed that goes on unless the answer is "n".
isConfirmedUnlessNo(answer) == answer # "n"

\* main.go:964: the undo goes on for "y" and "yes" only.
isConfirmed(answer) == answer = "y" \/ answer = "yes"

\* What the operator may answer to "Are you sure ...? (y/N)".
ConfirmationLines == {"y\n", "Y\n", " yes \n", "YES\n", "n\n", "\n", "yes please\n",
                      "no\n"}

\* main.go:913-947: load the ledger, find the last run, collect its actions.
UndoStart ==
    /\ pc \in {"idle", "done"}
    /\ untagged' = <<>>
    /\ selected' = <<>>
    /\ autoApply' = FALSE
    /\ idx' = 0
    /\ successCount' = 0
    /\ writes' = <<>>
    /\ appends' = <<>>
    /\ failedCalls' = {}
    /\ response' = Nil
    /\ saves' = 0
    /\ runID' = ""
    /\ \/ /\ Fail("failed to load history")
          /\ history' = <<>> /\ lastRunID' = "" /\ actionsToUndo' = <<>>
       \/ /\ history' = ledger
          /\ LET last == findLastRunID(ledger, Len(ledger))
                 todo == collectActionsToUndo(ledger, last)
             IN  IF Len(ledger) = 0
                 THEN /\ Fail("no tagging history found")
                      /\ lastRunID' = "" /\ actionsToUndo' = <<>>
                 ELSE IF last = ""
                 THEN /\ Fail("no undone runs found")
                      /\ lastRunID' = "" /\ actionsToUndo' = <<>>
                 ELSE IF Len(todo) = 0
                 THEN /\ Fail("no actions found for run")
                      /\ lastRunID' = last /\ actionsToUndo' = <<>>
                 ELSE /\ pc' = "undoConfirm" /\ result' = "running"
                      /\ lastRunID' = last /\ actionsToUndo' = todo
    /\ UNCHANGED <<cloudVars, ledger, clock, runCount, undoCompleted, attempted, events>>
    /\ UNCHANGED <<fnVars, goVars>>

\* main.go:949-975: the preview, the confirmation, the AWS client.
UndoConfirm ==
    /\ pc = "undoConfirm"
    /\ \/ /\ Fail("failed to read user input")
          /\ UNCHANGED <<idx, response>>
       \/ \E line \in ConfirmationLines :
            /\ response' = normalizeResponse(line)
            /\ IF ~isConfirmed(normalizeResponse(line))
               THEN pc' = "done" /\ result' = "ok: undo cancelled" /\ UNCHANGED idx
               ELSE \/ Fail("failed to load AWS config") /\ UNCHANGED idx
                    \/ pc' = "undoRestore" /\ idx' = 1 /\ UNCHANGED result
    /\ UNCHANGED <<cloudVars, ledger, clock, runCount, runID, untagged, selected,
                   autoApply, successCount, writes, appends, failedCalls, history,
                   lastRunID, actionsToUndo, saves, undoCompleted, attempted, events>>
    /\ UNCHANGED <<fnVars, goVars>>

\* A variant of revertNext that leaves the loop at the first failed attempt.
revertNextStopOnFailure(i, n, outcome) == IF outcome = "ok" THEN i + 1 ELSE n + 1

\* The position the revert loop turns to after the attempt at position i of n
\* has ended with `outcome`: the next one, whatever the outcome.
revertNext(i, n, outcome) == i + 1

\* main.go:982-1025: one iteration of the revert loop.
UndoRestore ==
    /\ pc = "undoRestore"
    /\ idx <= Len(actionsToUndo)
    /\ LET action == actionsToUndo[idx]
           value  == restoreValue(action)
       IN  \E outcome \in {"ok", "notFound", "error"} :
            /\ outcome = "ok" => ResourceExists(action.Resource)
            /\ outcome = "notFound" => ~ResourceExists(action.Resource)
            /\ writes' = Append(writes, [pos |-> idx, resource |-> action.Resource,
                                         value |-> value, outcome |-> outcome])
            /\ IF outcome = "ok"
               THEN /\ \E left \in TagLeftBy(value) :
                        /\ instances' = SetNameTag(instances, action.Resource, left)
                        /\ volumes' = SetNameTag(volumes, action.Resource, left)
                        /\ enis' = SetNameTag(enis, action.Resource, left)
                    /\ successCount' = successCount + 1
               ELSE UNCHANGED <<instances, volumes, enis, successCount>>
            /\ attempted' = attempted \cup {action}
            /\ idx' = revertNext(idx, Len(actionsToUndo), outcome)
            /\ pc' = IF revertNext(idx, Len(actionsToUndo), outcome) > Len(actionsToUndo)
                     THEN "undoSave" ELSE "undoRestore"
    /\ UNCHANGED <<images, ledger, clock, runCount, result, runID, untagged, selected,
                   autoApply, appends, failedCalls, undoVars, undoCompleted, events>>
    /\ UNCHANGED <<fnVars, goVars>>

\* main.go:1027-1058: flag the run's entries in memory, save the ledger once.
UndoSave ==
    /\ pc = "undoSave"
    /\ history' = markUndone(history, lastRunID)
    /\ saves' = saves + 1
    /\ \/ /\ ledger' = markUndone(history, lastRunID)
          /\ pc' = "done"
          /\ result' = "ok"
          /\ undoCompleted' = undoCompleted \cup {lastRunID}
       \/ /\ Fail("failed to save updated history")
          /\ UNCHANGED <<ledger, undoCompleted>>
    /\ UNCHANGED <<cloudVars, clock, runCount, runID, untagged, selected, autoApply, idx,
                   successCount, writes, appends, failedCalls, lastRunID, actionsToUndo,
                   response, attempted, events>>
    /\ UNCHANGED <<fnVars, goVars>>

(***************************************************************************)
(* The goroutines of one tagging invocation.  Every showProgress and       *)
(* showProgressWithResult call makes a channel `done` of capacity 1 and    *)
(* starts a worker goroutine that runs the wrapped function and sends what *)
(* it returned; the caller prints the throbber until it can receive.  main *)
(* wraps findUntaggedResources (worker "scan"), which wraps the three      *)
(* scans (workers "instances", "volumes", "enis"); applyTags wraps the     *)
(* CreateTags call and the ledger append of each selected resource         *)
(* (workers "tag1", "tag2").                                               *)
(***************************************************************************)

ScanWorkers == <<"instances", "volumes", "enis">>

TagWorkers == <<"tag1", "tag2">>

Workers == {"scan"} \cup Range(ScanWorkers) \cup Range(TagWorkers)

\* The goroutines that wait in showProgress: main, and the worker of
\* findUntaggedResources.
Waiters == {"main", "scan"}

\* The provider calls and ledger updates the function of a worker makes, in
\* order (one page per listing, one batch per lookup, one volume).
Script(w) ==
    CASE w = "instances" -> <<"DescribeInstances page", "DescribeImages batch">>
      [] w = "volumes"   -> <<"DescribeVolumes page", "DescribeInstances batch",
                              "DescribeVolumes volume">>
      [] w = "enis"      -> <<"DescribeNetworkInterfaces page", "DescribeInstances batch">>
      [] w \in Range(TagWorkers) -> <<"CreateTags", "addToHistory">>
      [] OTHER -> <<>>

\* The operations whose error the function returns; the error of the
\* per-volume lookup (main.go:549) and of addToHistory (main.go:1278) is not
\* returned.
ReturnsError(op) == op \notin {"DescribeVolumes volume", "addToHistory"}

\* What a wrapped function returns: a result and an error.
FnValue(value, err) == [result |-> value, err |-> err]

\* The zero value of the channel's element type.
ZeroValue == FnValue(Nil, Nil)

\* Nothing returned yet.
Pending == FnValue("pending", "pending")

\* make(chan ..., 1)
doneCapacity == 1

\* `done <- v` goes through when the buffer has room.
canSend(buffer) == Len(buffer) < doneCapacity

\* A variant of selectReceive that takes the receive case at once, with the
\* zero value when nothing was sent.
selectReceiveEager(buffer) ==
    [ready |-> TRUE,
     value |-> IF buffer # <<>> THEN Head(buffer) ELSE ZeroValue,
     rest  |-> IF buffer # <<>> THEN Tail(buffer) ELSE buffer]

\* select { case res := <-done: ... default: ... }: the receive case is taken
\* when a value is in the buffer, the default case otherwise.
selectReceive(buffer) ==
    [ready |-> buffer # <<>>,
     value |-> IF buffer # <<>> THEN Head(buffer) ELSE ZeroValue,
     rest  |-> IF buffer # <<>> THEN Tail(buffer) ELSE buffer]

\* A variant of returnValue that returns the result without the error.
returnValueNoError(res) == FnValue(res.result, Nil)

\* `return res.result, res.err` (showProgress: `return err`).
returnValue(res) == FnValue(res.result, res.err)

\* The position of a goroutine that waits in showProgress for worker w.
Waiting(w) == "wait " \o w

InitGo ==
    /\ gpc = [g \in Workers \cup {"main"} |-> IF g = "main" THEN "start" ELSE "off"]
    /\ step = [w \in Workers |-> 0]
    /\ done = [w \in Workers |-> <<>>]
    /\ throbber = [g \in Waiters |-> 0]
    /\ produced = [w \in Workers |-> Pending]
    /\ returned = [w \in Workers |-> Pending]
    /\ inFlight = {}
    /\ finished = {}
    /\ plan = [count |-> 0, auto |-> FALSE, cur |-> 0, read |-> FALSE]

\* showProgress up to its loop: make the channel, start the worker, i := 0.
\* `at` is the position the caller takes, gpc the positions before.
StartWorker(caller, w) ==
    /\ gpc' = [gpc EXCEPT ![caller] = Waiting(w), ![w] = "run"]
    /\ step' = [step EXCEPT ![w] = 1]
    /\ done' = [done EXCEPT ![w] = <<>>]
    /\ IF caller \in Waiters
       THEN throbber' = [throbber EXCEPT ![caller] = 0]
       ELSE UNCHANGED throbber

\* main.go:125: main starts the scan.
MainStartScan ==
    /\ gpc["main"] = "start"
    /\ StartWorker("main", "scan")
    /\ UNCHANGED <<produced, returned, inFlight, finished, plan>>
    /\ UNCHANGED <<progVars, fnVars>>

\* The default case of the loop: print the next throbber character, sleep.
Throb ==
    /\ \E g \in Waiters, w \in Workers :
        /\ gpc[g] = Waiting(w)
        /\ ~selectReceive(done[w]).ready
        /\ throbber' = [throbber EXCEPT ![g] = (throbber[g] + 1) % 10]
    /\ UNCHANGED <<gpc, step, done, produced, returned, inFlight, finished, plan>>
    /\ UNCHANGED <<progVars, fnVars>>

\* main.go:159-183: findUntaggedResources starts the next of the three scans.
ScanStartPhase ==
    /\ gpc["scan"] = "run"
    /\ step["scan"] \in 1..Len(ScanWorkers)
    /\ LET w == ScanWorkers[step["scan"]]
       IN  /\ gpc' = [gpc EXCEPT !["scan"] = Waiting(w), ![w] = "run"]
           /\ step' = [step EXCEPT ![w] = 1]
           /\ done' = [done EXCEPT ![w] = <<>>]
           /\ throbber' = [throbber EXCEPT !["scan"] = 0]
    /\ UNCHANGED <<produced, returned, inFlight, finished, plan>>
    /\ UNCHANGED <<progVars, fnVars>>

\* findUntaggedResources receives what a scan returned: an error ends it
\* (main.go:162-164); after the third scan it sorts and returns the list.
ScanReceive ==
    /\ \E w \in Range(ScanWorkers) :
        /\ gpc["scan"] = Waiting(w)
        /\ LET res == selectReceive(done[w])
               got == returnValue(res.value)
           IN  /\ res.ready
               /\ done' = [done EXCEPT ![w] = res.rest]
               /\ returned' = [returned EXCEPT ![w] = got]
               /\ throbber' = [throbber EXCEPT !["scan"] = 0]
               /\ IF got.err # Nil
                  THEN /\ produced' = [produced EXCEPT !["scan"] =
                                          FnValue(Nil, "failed to find untagged " \o w)]
                       /\ gpc' = [gpc EXCEPT !["scan"] = "send"]
                       /\ UNCHANGED step
                  ELSE IF step["scan"] < Len(ScanWorkers)
                  THEN /\ step' = [step EXCEPT !["scan"] = step["scan"] + 1]
                       /\ gpc' = [gpc EXCEPT !["scan"] = "run"]
                       /\ UNCHANGED produced
                  ELSE /\ \E found \in {"no resources", "resources"} :
                            produced' = [produced EXCEPT !["scan"] = FnValue(found, Nil)]
                       /\ gpc' = [gpc EXCEPT !["scan"] = "send"]
                       /\ UNCHANGED step
    /\ UNCHANGED <<inFlight, finished, plan>>
    /\ UNCHANGED <<progVars, fnVars>>

\* A worker's function begins its next provider call or ledger update.
BeginCall ==
    /\ \E w \in Workers :
        /\ gpc[w] = "run"
        /\ step[w] \in 1..Len(Script(w))
        /\ gpc' = [gpc EXCEPT ![w] = "call"]
        /\ inFlight' = inFlight \cup {[by |-> w, op |-> Script(w)[step[w]]]}
    /\ UNCHANGED <<step, done, throbber, produced, returned, finished, plan>>
    /\ UNCHANGED <<progVars, fnVars>>

\* The call ends, with or without an error; the function goes on to its next
\* operation or returns.
EndCall ==
    /\ \E w \in Workers, ok \in BOOLEAN :
        LET op == Script(w)[step[w]]
        IN  /\ gpc[w] = "call"
            /\ inFlight' = inFlight \ {[by |-> w, op |-> op]}
            /\ finished' = finished \cup {[by |-> w, op |-> op]}
            /\ IF ~ok /\ ReturnsError(op)
               THEN /\ produced' = [produced EXCEPT ![w] = FnValue(Nil, op \o " failed")]
                    /\ gpc' = [gpc EXCEPT ![w] = "send"]
                    /\ UNCHANGED step
               ELSE IF step[w] < Len(Script(w))
               THEN /\ step' = [step EXCEPT ![w] = step[w] + 1]
                    /\ gpc' = [gpc EXCEPT ![w] = "run"]
                    /\ UNCHANGED produced
               ELSE /\ produced' = [produced EXCEPT ![w] = FnValue("result of " \o w, Nil)]
                    /\ gpc' = [gpc EXCEPT ![w] = "send"]
                    /\ UNCHANGED step
    /\ UNCHANGED <<done, throbber, returned, plan>>
    /\ UNCHANGED <<progVars, fnVars>>

\* `done <- fn()`: the worker sends what the function returned and ends.
SendOf(w) ==
    /\ gpc[w] = "send"
    /\ canSend(done[w])
    /\ done' = [done EXCEPT ![w] = Append(done[w], produced[w])]
    /\ gpc' = [gpc EXCEPT ![w] = "exit"]
    /\ UNCHANGED <<step, throbber, produced, returned, inFlight, finished, plan>>
    /\ UNCHANGED <<progVars, fnVars>>

Send == \E w \in Workers : SendOf(w)

\* main.go:125-135: main receives what the scan returned.
MainReceiveScan ==
    /\ gpc["main"] = Waiting("scan")
    /\ LET res == selectReceive(done["scan"])
           got == returnValue(res.value)
       IN  /\ res.ready
           /\ done' = [done EXCEPT !["scan"] = res.rest]
           /\ returned' = [returned EXCEPT !["scan"] = got]
           /\ throbber' = [throbber EXCEPT !["main"] = 0]
           /\ gpc' = [gpc EXCEPT !["main"] =
                        IF got.err # Nil THEN "fatal"
                        ELSE IF got.result = "resources" THEN "select"
                        ELSE "end"]
    /\ UNCHANGED <<step, produced, inFlight, finished, plan>>
    /\ UNCHANGED <<progVars, fnVars>>

\* main.go:140-144: selectResources reads the selection line.
MainSelect ==
    /\ gpc["main"] = "select"
    /\ \/ /\ gpc' = [gpc EXCEPT !["main"] = "fatal"]
          /\ UNCHANGED plan
       \/ \E count \in 0..Len(TagWorkers), auto \in BOOLEAN :
            /\ auto => count > 0
            /\ plan' = [count |-> count, auto |-> auto, cur |-> 1, read |-> TRUE]
            /\ gpc' = [gpc EXCEPT !["main"] = IF count = 0 THEN "end" ELSE "prompt"]
    /\ UNCHANGED <<step, done, throbber, produced, returned, inFlight, finished>>
    /\ UNCHANGED <<progVars, fnVars>>

\* main.go:1249-1261: applyTags prompts (unless autoApply) and starts the
\* worker of the resource at work.
MainStartTag ==
    /\ gpc["main"] = "prompt"
    /\ \/ /\ ~plan.auto
          /\ gpc' = [gpc EXCEPT !["main"] = "fatal"]
          /\ UNCHANGED <<step, done, throbber>>
       \/ StartWorker("main", TagWorkers[plan.cur])
    /\ UNCHANGED <<produced, returned, inFlight, finished, plan>>
    /\ UNCHANGED <<progVars, fnVars>>

\* main.go:1286-1295: applyTags receives what the worker returned.
MainReceiveTag ==
    /\ \E w \in Range(TagWorkers) :
        /\ gpc["main"] = Waiting(w)
        /\ LET res == selectReceive(done[w])
               got == returnValue(res.value)
           IN  /\ res.ready
               /\ done' = [done EXCEPT ![w] = res.rest]
               /\ returned' = [returned EXCEPT ![w] = got]
               /\ throbber' = [throbber EXCEPT !["main"] = 0]
               /\ IF got.err # Nil
                  THEN gpc' = [gpc EXCEPT !["main"] = "fatal"] /\ UNCHANGED plan
                  ELSE IF plan.cur < plan.count
                  THEN /\ gpc' = [gpc EXCEPT !["main"] = "prompt"]
                       /\ plan' = [plan EXCEPT !.cur = plan.cur + 1]
                  ELSE gpc' = [gpc EXCEPT !["main"] = "end"] /\ UNCHANGED plan
    /\ UNCHANGED <<step, produced, inFlight, finished>>
    /\ UNCHANGED <<progVars, fnVars>>

(***************************************************************************)
(* The program: an account with two network interfaces and an empty        *)
(* ledger; tagging runs and undo invocations follow one another.           *)
(***************************************************************************)

\* No function has been called on its own.
NoCall == [fn |-> "none", args |-> <<>>]

InitLocals ==
    /\ runID = ""
    /\ untagged = <<>>
    /\ selected = <<>>
    /\ autoApply = FALSE
    /\ idx = 0
    /\ successCount = 0
    /\ writes = <<>>
    /\ appends = <<>>
    /\ failedCalls = {}
    /\ history = <<>>
    /\ lastRunID = ""
    /\ actionsToUndo = <<>>
    /\ response = Nil
    /\ saves = 0

Init ==
    /\ instances = <<>>
    /\ volumes = <<>>
    /\ enis = <<RawENI("eni-1", Nil, "available", FALSE, Nil, Nil, Nil),
                RawENI("eni-2", Nil, "available", FALSE, Nil, Nil, Nil)>>
    /\ images = {}
    /\ ledger = <<>>
    /\ clock = 0
    /\ runCount = 0
    /\ pc = "idle"
    /\ result = "none"
    /\ InitLocals
    /\ undoCompleted = {}
    /\ attempted = {}
    /\ events = 0
    /\ call = NoCall
    /\ ret = <<>>
    /\ InitGo

Next ==
    \/ StartRun
    \/ ScanInstances
    \/ ScanVolumes
    \/ ScanENIs
    \/ Select
    \/ ApplyTag
    \/ UndoStart
    \/ UndoConfirm
    \/ UndoRestore
    \/ UndoSave
    \/ AttachENI
    \/ DetachENI
    \/ DeleteENI

Spec == Init /\ [][Next]_vars

(***************************************************************************)
(* The scan on its own: one tagging run up to the selection prompt, from   *)
(* every account that holds one resource of one kind (and possibly the     *)
(* instance "i-1" it is attached to).                                      *)
(***************************************************************************)

InstanceNameTags == {Nil, "", "web-server", "instance-ami-1", "instance-", "my-ami",
                     "unknown-instance-7", "unattached"}

VolumeNameTags == {Nil, "", "data", "unattached", "unattached-/dev/sdf", "unattache",
                   "unknown-1", "i-1(web) /dev/sdf", "i-1 /dev/sdf"}

ENINameTags == {Nil, "", "web", "web-eni", "unattached-eni", "unattached-x", "i-1-eni",
                "service-ela-attach-1-eni", "service-x", "attached-unknown-eni",
                "lambda-ela-attach-1-eni", "rds-eni-attach-1", "my-lb-eni",
                "x-attach-y-eni", "eni-0123456789abcdef0", "eni-1",
                "Network interface 1", "primary network interface"}

ENIDescriptions == {Nil, "", "AWS Lambda VPC ENI", "RDSNetworkInterface",
                    "ElastiCache c1", "ELB app/my-lb/35b9", "ELB", "ELB net",
                    "some load balancer", "Interface for NAT Gateway nat-1"}

\* The instance other resources are attached to: absent, or with a Name tag.
PeerInstances == {<<>>} \cup
    {<<RawInstance("i-1", tag, "running", "ami-1")>> : tag \in {Nil, "", "web"}}

ImageSets == {{}, {[id |-> "ami-1", name |-> "my-ami"]}, {[id |-> "ami-1", name |-> Nil]},
              {[id |-> "ami-1", name |-> ""]}}

InstanceAccounts ==
    {[instances |-> <<RawInstance("i-2", tag, state, image)>>, volumes |-> <<>>,
      enis |-> <<>>, images |-> ims] :
        tag \in InstanceNameTags, state \in {"running", "stopped", "terminated"},
        image \in {Nil, "ami-1"}, ims \in ImageSets}

VolumeAttachments == {<<>>, <<[instanceId |-> "i-1", device |-> "/dev/sdf"]>>,
                      <<[instanceId |-> "i-1", device |-> Nil]>>,
                      <<[instanceId |-> Nil, device |-> "/dev/sdf"]>>}

VolumeAccounts ==
    {[instances |-> peer, volumes |-> <<RawVolume("vol-1", tag, state, atts)>>,
      enis |-> <<>>, images |-> {}] :
        tag \in VolumeNameTags, state \in {"available", "in-use"},
        atts \in VolumeAttachments, peer \in PeerInstances}

ENIAttachments ==
    {[attached |-> FALSE, instanceId |-> Nil, attachmentId |-> Nil, description |-> Nil]}
    \cup {[attached |-> TRUE, instanceId |-> "i-1", attachmentId |-> "eni-attach-1",
           description |-> d] : d \in {Nil, "ELB app/my-lb/35b9"}}
    \cup {[attached |-> TRUE, instanceId |-> Nil, attachmentId |-> "ela-attach-1",
           description |-> d] : d \in ENIDescriptions}
    \cup {[attached |-> TRUE, instanceId |-> Nil, attachmentId |-> Nil,
           description |-> Nil]}

ENIAccounts ==
    {[instances |-> peer, volumes |-> <<>>,
      enis |-> <<RawENI("eni-1", tag, status, att.attached, att.instanceId,
                        att.attachmentId, att.description)>>,
      images |-> {}] :
        tag \in ENINameTags, status \in {"available", "in-use"},
        att \in ENIAttachments, peer \in {<<>>, <<RawInstance("i-1", "web", "running", "ami-1")>>}}

InitScan ==
    /\ \E account \in InstanceAccounts \cup VolumeAccounts \cup ENIAccounts :
        /\ instances = account.instances
        /\ volumes = account.volumes
        /\ enis = account.enis
        /\ images = account.images
    /\ ledger = <<>>
    /\ clock = 0
    /\ runCount = 0
    /\ pc = "idle"
    /\ result = "none"
    /\ InitLocals
    /\ undoCompleted = {}
    /\ attempted = {}
    /\ events = 0
    /\ call = NoCall
    /\ ret = <<>>
    /\ InitGo

NextScan ==
    \/ StartRun
    \/ ScanInstances
    \/ ScanVolumes
    \/ ScanENIs

ScanSpec == InitScan /\ [][NextScan]_vars

(***************************************************************************)
(* C1 (original): for every kind, a scanned resource is a candidate        *)
(* exactly when its current name is empty or it carries a self-generated   *)
(* name that is no longer valid, and nothing else decides it.              *)
(***************************************************************************)

\* The scan has run to its end and main holds its result.
ScanCompleted ==
    pc = "select" \/ (pc = "done" /\ result = "ok: nothing to tag")

InCandidates(id) == \E i \in 1..Len(untagged) : untagged[i].ID = id

StaleName(name, kind, state, extra) ==
    isQuickTagCreatedName(name, kind) /\ ~isQuickTagNameStillValid(name, kind, state, extra)

C1_CandidateIffEmptyOrStale ==
    ScanCompleted =>
        /\ \A i \in 1..Len(instances) :
            InCandidates(instances[i].id) <=>
                \/ currentNameOf(instances[i]) = ""
                \/ StaleName(currentNameOf(instances[i]), "instance",
                             instances[i].state, instances[i].imageId)
        /\ \A i \in 1..Len(volumes) :
            InCandidates(volumes[i].id) <=>
                \/ currentNameOf(volumes[i]) = ""
                \/ StaleName(currentNameOf(volumes[i]), "volume", volumes[i].state,
                             getVolumeMountPoint(volumes[i]))
        /\ \A i \in 1..Len(enis) :
            InCandidates(enis[i].id) <=>
                \/ currentNameOf(enis[i]) = ""
                \/ StaleName(currentNameOf(enis[i]), "eni", enis[i].status,
                             getENIAttachmentInfo(enis[i]))

(***************************************************************************)
(* C1 (amended): a scanned volume or ENI is a candidate exactly when it    *)
(* carries no Name tag (an empty Name tag is a name) or its name is        *)
(* self-generated and no longer valid; an instance is a candidate exactly  *)
(* when, in addition, it is not terminated and has an image id.            *)
(***************************************************************************)
C1_CandidateIffUntaggedOrStale ==
    ScanCompleted =>
        /\ \A i \in 1..Len(instances) :
            InCandidates(instances[i].id) <=>
                /\ instances[i].state # "terminated"
                /\ instances[i].imageId # Nil
                /\ \/ instances[i].nameTag = Nil
                   \/ StaleName(instances[i].nameTag, "instance",
                                instances[i].state, instances[i].imageId)
        /\ \A i \in 1..Len(volumes) :
            InCandidates(volumes[i].id) <=>
                \/ volumes[i].nameTag = Nil
                \/ StaleName(volumes[i].nameTag, "volume", volumes[i].state,
                             getVolumeMountPoint(volumes[i]))
        /\ \A i \in 1..Len(enis) :
            InCandidates(enis[i].id) <=>
                \/ enis[i].nameTag = Nil
                \/ StaleName(enis[i].nameTag, "eni", enis[i].status,
                             getENIAttachmentInfo(enis[i]))

\* A scan has listed a resource because its self-generated name went stale.
C1_Witness ==
    /\ pc = "select"
    /\ \E i \in 1..Len(untagged) : untagged[i].Name # ""

(***************************************************************************)
(* Claims about undoLastRun and applyTags, checked under Spec.             *)
(***************************************************************************)

\* The Name a resource shows: "" when it has no Name tag.
NameOfResource(id) == IF NameTagOf(id) = Nil THEN "" ELSE NameTagOf(id)

\* An undo invocation is past its confirmation (it may have ended).
UndoConfirmed == lastRunID # "" /\ (pc \in {"undoRestore", "undoSave"} \/ saves > 0)

\* An undo invocation has made all its restore attempts and its save.
UndoFinished == pc = "done" /\ lastRunID # "" /\ saves > 0

(***************************************************************************)
(* C2: undo round trip.  Once the restore call for a ledger entry          *)
(* (oldValue = X, newValue = Y) has succeeded, the resource's Name is X    *)
(* (no name when X is empty); only the tool writes tags in this model.     *)
(***************************************************************************)
C2_UndoRestoresOldValue ==
    UndoConfirmed =>
        \A k \in 1..Len(writes) :
            (writes[k].outcome = "ok" /\ ResourceExists(actionsToUndo[k].Resource))
                => NameOfResource(actionsToUndo[k].Resource) = actionsToUndo[k].OldValue

\* An undo has set a name back to the non-empty name it replaced.
C2_Witness ==
    /\ UndoFinished
    /\ result = "ok"
    /\ \E k \in 1..Len(writes) :
        /\ writes[k].outcome = "ok"
        /\ actionsToUndo[k].OldValue # ""
        /\ actionsToUndo[k].NewValue # actionsToUndo[k].OldValue
        /\ NameOfResource(actionsToUndo[k].Resource) = actionsToUndo[k].OldValue

(***************************************************************************)
(* C3: no double undo.  A run whose undo has returned without error is     *)
(* never collected by a later undo, so no restore call is issued for its   *)
(* entries; and an undo that loads a non-empty ledger whose entries are    *)
(* all undone ends with "no undone runs found", no tag write and the       *)
(* ledger unchanged.                                                       *)
(***************************************************************************)
AllUndone(actions) == \A i \in 1..Len(actions) : actions[i].Undone

C3_NoDoubleUndo ==
    /\ [](pc \in {"undoConfirm", "undoRestore", "undoSave"} =>
            /\ lastRunID \notin undoCompleted
            /\ \A k \in 1..Len(actionsToUndo) :
                  actionsToUndo[k].RunID \notin undoCompleted)
    /\ [][(UndoStart /\ Len(ledger) > 0 /\ AllUndone(ledger)
              /\ result' # "failed to load history")
            => /\ pc' = "done"
               /\ result' = "no undone runs found"
               /\ writes' = <<>>
               /\ ledger' = ledger
               /\ UNCHANGED cloudVars]_vars

\* A second undo has met a ledger with nothing left to undo.
C3_Witness ==
    /\ pc = "done"
    /\ result = "no undone runs found"
    /\ undoCompleted # {}
    /\ Len(ledger) > 0

(***************************************************************************)
(* C4: the last run is the run id of the highest-index entry that is not   *)
(* undone; exactly the entries with that run id that are not undone are    *)
(* collected and restored, in stored order; entries of other runs are      *)
(* neither restored nor flagged.                                           *)
(***************************************************************************)
\* The indices of the stored entries of `run` that are not undone.
OpenIndices(run) == {i \in 1..Len(ledger) : ledger[i].RunID = run /\ ~ledger[i].Undone}

\* The k-th smallest element of a set of indices.
KthOf(indices, k) == CHOOSE i \in indices : Cardinality({j \in indices : j < i}) = k - 1

C4_LastRunSelection ==
    /\ [](pc \in {"undoConfirm", "undoRestore", "undoSave"} =>
            /\ \E i \in 1..Len(ledger) :
                  /\ ~ledger[i].Undone
                  /\ ledger[i].RunID = lastRunID
                  /\ \A j \in (i + 1)..Len(ledger) : ledger[j].Undone
            /\ Len(actionsToUndo) = Cardinality(OpenIndices(lastRunID))
            /\ \A k \in 1..Len(actionsToUndo) :
                  actionsToUndo[k] = ledger[KthOf(OpenIndices(lastRunID), k)]
            /\ Len(writes) <= Len(actionsToUndo)
            /\ \A k \in 1..Len(writes) :
                  /\ writes[k].pos = k
                  /\ writes[k].resource = actionsToUndo[k].Resource)
    /\ [][pc = "undoSave" =>
            /\ Len(ledger') = Len(ledger)
            /\ \A i \in 1..Len(ledger) :
                  ledger[i].RunID # lastRunID => ledger'[i] = ledger[i]]_vars

\* An undo is restoring the later of two runs that are both not undone.
C4_Witness ==
    /\ pc = "undoSave"
    /\ Len(writes) > 0
    /\ \E i \in 1..Len(ledger) : ledger[i].RunID # lastRunID /\ ~ledger[i].Undone

(***************************************************************************)
(* C5: nothing is saved before the last restore attempt; once all          *)
(* collected entries have been attempted, each of them is flagged undone   *)
(* in the history whatever its outcome, the history is saved exactly       *)
(* once, and the saved ledger is that flagged history.                     *)
(***************************************************************************)
C5_AllCollectedFlagged ==
    /\ pc \in {"undoConfirm", "undoRestore", "undoSave"} =>
          /\ saves = 0
          /\ history = ledger
    /\ UndoFinished =>
          /\ saves = 1
          /\ Len(writes) = Len(actionsToUndo)
          /\ Len(history) = Len(ledger)
          /\ \A i \in 1..Len(history) :
                history[i].RunID = lastRunID => history[i].Undone
          /\ \A k \in 1..Len(actionsToUndo) :
                \E i \in 1..Len(history) :
                    history[i] = [actionsToUndo[k] EXCEPT !.Undone = TRUE]
          /\ result = "ok" => ledger = history

\* An undo has ended with one resource gone and one restore call refused.
C5_Witness ==
    /\ UndoFinished
    /\ result = "ok"
    /\ \E k \in 1..Len(writes) : writes[k].outcome = "notFound"
    /\ \E k \in 1..Len(writes) : writes[k].outcome = "error"
    /\ \A i \in 1..Len(ledger) : ledger[i].RunID = lastRunID => ledger[i].Undone

(***************************************************************************)
(* C6: every step keeps the stored entries in place: the ledger never      *)
(* shrinks, an entry's account, resource, oldValue, newValue, timestamp    *)
(* and runId never change, and an undone flag never goes back to false.    *)
(***************************************************************************)
SameButUndone(before, after) == [after EXCEPT !.Undone = before.Undone] = before

C6_LedgerAppendOnly ==
    [][/\ Len(ledger') >= Len(ledger)
       /\ \A i \in 1..Len(ledger) :
            /\ SameButUndone(ledger[i], ledger'[i])
            /\ ledger[i].Undone => ledger'[i].Undone]_vars

\* The ledger holds an undone entry followed by an entry of a later run.
C6_Witness ==
    \E i \in 1..Len(ledger) : \E j \in (i + 1)..Len(ledger) :
        /\ ledger[i].Undone
        /\ ~ledger[j].Undone
        /\ ledger[j].RunID # ledger[i].RunID

(***************************************************************************)
(* C7: a confirmed undo makes exactly one restore attempt per collected    *)
(* entry, in order, whatever the outcomes of the earlier attempts, and     *)
(* ends without error unless the save of the history fails.                *)
(***************************************************************************)
C7_OneAttemptEach ==
    /\ pc = "undoRestore" =>
          /\ idx <= Len(actionsToUndo)
          /\ Len(writes) = idx - 1
    /\ (pc = "undoSave" \/ UndoFinished) =>
          /\ Len(writes) = Len(actionsToUndo)
          /\ \A k \in 1..Len(writes) :
                /\ writes[k].pos = k
                /\ writes[k].resource = actionsToUndo[k].Resource
    /\ UndoFinished => result \in {"ok", "failed to save updated history"}

\* An undo has ended without error although its first attempt failed.
C7_Witness ==
    /\ UndoFinished
    /\ result = "ok"
    /\ Len(writes) = 2
    /\ writes[1].outcome # "ok"
    /\ writes[2].outcome = "ok"

(***************************************************************************)
(* C8: when the tag write at list position i fails, it is the last write   *)
(* of applyTags: no write and no ledger append follows for a later         *)
(* position, applyTags returns the error, and the tags written and the     *)
(* ledger entries appended before position i stay.                         *)
(***************************************************************************)
\* The ledger entries of the tagging run in progress, in stored order.
RunEntries == SelectSeq(ledger, LAMBDA entry : entry.RunID = runID)

\* The ledger appends of the tagging run that succeeded, in order.
LoggedAppends == SelectSeq(appends, LAMBDA a : a.ok)

C8_StopOnTagFailure ==
    runID # "" =>
        \A k \in 1..Len(writes) :
            writes[k].outcome = "error" =>
                /\ k = Len(writes)
                /\ pc = "done"
                /\ result = "failed to tag"
                /\ successCount = k - 1
                /\ \A a \in 1..Len(appends) : appends[a].pos < k
                /\ Len(RunEntries) = Len(LoggedAppends)
                /\ \A j \in 1..(k - 1) :
                      /\ writes[j].outcome = "ok"
                      /\ ResourceExists(writes[j].resource) =>
                            NameOfResource(writes[j].resource) = writes[j].value

\* The first of two selected resources could not be tagged.
C8_Witness ==
    /\ runID # ""
    /\ pc = "done"
    /\ Len(selected) = 2
    /\ Len(writes) = 1
    /\ writes[1].outcome = "error"

(***************************************************************************)
(* C9: each successful tag write whose ledger append works adds exactly    *)
(* one entry with the resource id, the name captured by the scan as old    *)
(* value, the written suggested name as new value, this run's id and       *)
(* undone = false; the entries are in the order of the writes; and every   *)
(* listed resource gets exactly one tag write.                             *)
(***************************************************************************)
\* The entries of the run are those of its logged writes, in order.
EntriesMatchWrites ==
    /\ Len(RunEntries) = Len(LoggedAppends)
    /\ \A k \in 1..Len(RunEntries) :
          LET p == LoggedAppends[k].pos
          IN  /\ p \in 1..Len(writes)
              /\ writes[p].outcome = "ok"
              /\ writes[p].value = selected[p].SuggestedName
              /\ [RunEntries[k] EXCEPT !.Timestamp = 0] =
                    TagHistoryEntry(Account, selected[p].ID, selected[p].Name,
                                    selected[p].SuggestedName, 0, runID)
    /\ \A a, b \in 1..Len(appends) : a < b => appends[a].pos < appends[b].pos
    /\ \A k \in 1..Len(writes) :
          /\ writes[k].pos = k
          /\ k <= Len(selected)
          /\ writes[k].resource = selected[k].ID
          /\ Cardinality({a \in 1..Len(appends) : appends[a].pos = k})
                = IF writes[k].outcome = "ok" THEN 1 ELSE 0

\* As stated: once applyTags has returned, every listed resource has had its
\* tag write.
C9_OneWritePerListedResource ==
    runID # "" =>
        /\ EntriesMatchWrites
        /\ (pc = "done" /\ Len(selected) > 0) => Len(writes) = Len(selected)

\* Amended: at most one tag write per listed resource, and exactly one for
\* each when applyTags returns without error.
C9_OneWritePerReachedResource ==
    runID # "" =>
        /\ EntriesMatchWrites
        /\ Len(writes) <= Len(selected)
        /\ (pc = "done" /\ result = "ok") => Len(writes) = Len(selected)

\* A run has tagged and logged two different resources.
C9_Witness ==
    /\ runID # ""
    /\ pc = "done"
    /\ result = "ok"
    /\ Len(RunEntries) = 2
    /\ RunEntries[1].Resource # RunEntries[2].Resource
    /\ RunEntries[1].OldValue # RunEntries[1].NewValue

(***************************************************************************)
(* C10: when the ledger append fails after a successful tag write, the     *)
(* tag stays (no second write to that resource's position), the resource   *)
(* is counted as tagged, and the loop goes on to the next position: the    *)
(* run does not end because of the failed append.                          *)
(***************************************************************************)
C10_LedgerFailureTolerated ==
    runID # "" =>
        \A a \in 1..Len(appends) :
            ~appends[a].ok =>
                LET p == appends[a].pos
                IN  /\ writes[p].outcome = "ok"
                    /\ \A k \in 1..Len(writes) : writes[k].pos = p => k = p
                    /\ ResourceExists(writes[p].resource) =>
                          NameOfResource(writes[p].resource) = writes[p].value
                    /\ successCount >= p
                    /\ idx > p
                    /\ (pc = "done" /\ Len(writes) = p) =>
                          \/ p = Len(selected) /\ result = "ok"
                          \/ /\ p < Len(selected)
                             /\ ~autoApply
                             /\ result = "failed to read user input"

\* A run went on to tag and log its second resource after the ledger
\* append for the first had failed.
C10_Witness ==
    /\ runID # ""
    /\ pc = "done"
    /\ result = "ok"
    /\ Len(appends) = 2
    /\ ~appends[1].ok
    /\ appends[2].ok
    /\ Len(RunEntries) = 1

(***************************************************************************)
(* C14 (as stated): the classifier recognises every name the suggestion    *)
(* engine assigns to a resource of the same kind.                          *)
(***************************************************************************)
\* isQuickTagCreatedName recognises the suggestion of the i-th record.
SuggestionRecognised(i) ==
    isQuickTagCreatedName(untagged[i].SuggestedName, untagged[i].Type)

C14_EverySuggestionRecognised ==
    \A i \in 1..Len(untagged) : SuggestionRecognised(i)

(***************************************************************************)
(* C14 (amended): the classifier recognises "instance-<amiId>" for an      *)
(* image id starting with "ami-", "unattached" for a volume, and for an    *)
(* ENI "unattached-eni", "<type>-<id>-eni" and "service-<id>-eni"; of the  *)
(* volume names it recognises "unattached" only, and it never recognises   *)
(* an ENI name that starts with an instance id.                            *)
(***************************************************************************)
C14_RecognisedSuggestions ==
    \A i \in 1..Len(untagged) :
        LET r == untagged[i]
        IN  /\ (/\ r.Type = "instance"
                /\ r.SuggestedName = "instance-" \o r.Extra
                /\ HasPrefix(r.Extra, "ami-")) => SuggestionRecognised(i)
            /\ r.Type = "volume" =>
                  (SuggestionRecognised(i) <=> r.SuggestedName = "unattached")
            /\ (/\ r.Type = "eni"
                /\ (r.Extra = "unattached" \/ Contains(r.Extra, "-attachment-")))
                  => SuggestionRecognised(i)
            /\ (r.Type = "eni" /\ HasPrefix(r.SuggestedName, "i-"))
                  => ~SuggestionRecognised(i)

\* The scan has suggested a "<type>-<id>-eni" name, which is recognised.
C14_Witness ==
    /\ pc = "select"
    /\ \E i \in 1..Len(untagged) :
        /\ untagged[i].Type = "eni"
        /\ Contains(untagged[i].Extra, "-attachment-")
        /\ HasSuffix(untagged[i].SuggestedName, "-eni")
        /\ SuggestionRecognised(i)

(***************************************************************************)
(* C15: every record the scan returns has a non-empty suggested name,      *)
(* whatever the image and instance lookups returned.                       *)
(***************************************************************************)
C15_SuggestedNameNonEmpty ==
    \A i \in 1..Len(untagged) : untagged[i].SuggestedName # ""

(***************************************************************************)
(* C19: whatever the provider does and answers between the listing of a    *)
(* volume and its suggestion, the suggested name is "unattached" exactly   *)
(* when the listed volume had no attachment (extraInfo "unattached"), and  *)
(* for an attached volume it is "<instanceId>(<name>) <device>" or         *)
(* "<instanceId> <device>" with the record's extraInfo as device.          *)
(***************************************************************************)
\* The volume as it was listed.
ListedVolume(id) == volumes[CHOOSE i \in 1..Len(volumes) : volumes[i].id = id]

C19_VolumeSuggestionFollowsListing ==
    \A i \in 1..Len(untagged) :
        untagged[i].Type = "volume" =>
            LET r == untagged[i]
                listed == ListedVolume(r.ID)
            IN  /\ (r.SuggestedName = "unattached") <=> (Len(listed.attachments) = 0)
                /\ (Len(listed.attachments) = 0) <=> (r.Extra = "unattached")
                /\ Len(listed.attachments) > 0 =>
                      \/ r.SuggestedName = listed.attachments[1].instanceId \o " " \o r.Extra
                      \/ /\ HasPrefix(r.SuggestedName,
                                      listed.attachments[1].instanceId \o "(")
                         /\ HasSuffix(r.SuggestedName, ") " \o r.Extra)

(***************************************************************************)
(* C22.  undoLastRun asks before it restores anything: a restore is only   *)
(* attempted after the answer "y" or "yes" (trimmed, in any case); with    *)
(* any other answer the invocation ends without error, has written no tag  *)
(* and saved nothing, the ledger is as it was loaded, and an undo started  *)
(* next selects the same run and the same entries.                         *)
(***************************************************************************)
UndoAnswered == lastRunID # "" /\ response # Nil

UndoDeclined == UndoAnswered /\ response \notin {"y", "yes"}

C22_DeclinedUndoChangesNothing ==
    /\ [](UndoDeclined =>
            /\ pc = "done"
            /\ result = "ok: undo cancelled"
            /\ writes = <<>>
            /\ saves = 0
            /\ ledger = history)
    /\ []((lastRunID # "" /\ Len(writes) > 0) => response \in {"y", "yes"})
    /\ [][(UndoStart /\ UndoDeclined /\ result' # "failed to load history")
            => /\ pc' = "undoConfirm"
               /\ lastRunID' = lastRunID
               /\ actionsToUndo' = actionsToUndo]_vars

\* The undo of the second run was declined after the first run was undone.
C22_Witness ==
    /\ UndoDeclined
    /\ response = "yes please"
    /\ lastRunID = "run-2"
    /\ \E i \in 1..Len(ledger) : ledger[i].Undone
    /\ \E i \in 1..Len(ledger) : ~ledger[i].Undone

(***************************************************************************)
(* C21.  Every provider call that fails during the scan (a page of a       *)
(* listing, a batch lookup of AMI or instance names, the per-volume lookup *)
(* of the attached instance) aborts the scan with an error: the invocation *)
(* has ended with that failure, nothing was offered for selection and no   *)
(* tag was written.                                                        *)
(***************************************************************************)
C21_ScanFailureAborts ==
    (runID # "" /\ failedCalls # {}) =>
        /\ pc = "done"
        /\ HasPrefix(result, "failed to find untagged")
        /\ selected = <<>>
        /\ writes = <<>>

(***************************************************************************)
(* C27.  Successive confirmed undos walk the ledger's runs from the latest *)
(* to the earliest, one run per invocation.                                *)
(***************************************************************************)
\* A confirmed undo is restoring or about to save.
UndoRestoring == pc \in {"undoRestore", "undoSave"}

\* The stored form of a ledger entry before an undo flagged it.
AsRecorded(action) == [action EXCEPT !.Undone = FALSE]

\* Each confirmed undo restores the entries of one run, a run no undo has
\* completed, and every run recorded after that run has been undone.
OneRunPerUndoLatestFirst ==
    UndoRestoring =>
        /\ lastRunID \notin undoCompleted
        /\ \A k \in 1..Len(actionsToUndo) : actionsToUndo[k].RunID = lastRunID
        /\ \A j \in 1..Len(history) : \A i \in (j + 1)..Len(history) :
              (history[j].RunID = lastRunID /\ history[i].RunID # lastRunID)
                  => history[i].RunID \in undoCompleted

\* Once an undo of every recorded run has completed, every entry is flagged
\* and has been through a restore attempt.
AllRunsUndone ==
    /\ Len(ledger) > 0
    /\ \A i \in 1..Len(ledger) : ledger[i].RunID \in undoCompleted

EveryEntryAttempted ==
    AllRunsUndone =>
        \A i \in 1..Len(ledger) :
            ledger[i].Undone /\ AsRecorded(ledger[i]) \in attempted

ClassifiedNames ==
    ((InstanceNameTags \cup VolumeNameTags \cup ENINameTags) \ {Nil}) \cup
    {"my-custom-instance", "my-custom-volume", "my-custom-eni", "unknown-",
     "unknown-volume", "unattached-", "unattached-eni-1", "unattached-1-attach-2-eni",
     "nat-1-eni", "elb-my-lb-eni", "eni-attach-1", "Unattached", "UNATTACHED-ENI",
     "interface primary", "eni-0123456789abcdef012345", "eni-0123456789abcdef01234"}

ResourceKinds == {"instance", "volume", "eni", "snapshot"}

CurrentStates == {"available", "in-use", "running", ""}

ExtraInfos == {"unattached", "", "/dev/sdf", "unknown", "ami-1", "attached-to-i-1",
               "attached-unknown", "attached-nat-ela-attach-1", "Unattached"}

CallStillValid ==
    /\ call = NoCall
    /\ \E name \in ClassifiedNames, kind \in ResourceKinds,
          state \in CurrentStates, extra \in ExtraInfos :
        /\ call' = [fn |-> "isQuickTagNameStillValid",
                    args |-> <<name, kind, state, extra>>]
        /\ ret' = isQuickTagNameStillValid(name, kind, state, extra)
    /\ UNCHANGED <<progVars, goVars>>

\* The last call was isQuickTagNameStillValid(name, kind, ., .).
ValidityAsked(kind) ==
    /\ call.fn = "isQuickTagNameStillValid"
    /\ call.args[2] = kind

(***************************************************************************)
(* C11: a name that isQuickTagCreatedName does not recognise is valid for  *)
(* every kind, state and extraInfo.                                        *)
(***************************************************************************)
C11_HumanNameNeverStale ==
    (/\ call.fn = "isQuickTagNameStillValid"
     /\ ~isQuickTagCreatedName(call.args[1], call.args[2]))
        => ret = TRUE

\* A name a person gave, ending in "-eni", on an ENI that is unattached.
C11_Witness ==
    /\ ValidityAsked("eni")
    /\ ~isQuickTagCreatedName(call.args[1], "eni")
    /\ Contains(call.args[1], "-eni")
    /\ call.args[4] = "unattached"
    /\ ret = TRUE

(***************************************************************************)
(* C12: a volume name "unattached" or "unattached-..." is valid exactly    *)
(* when the state is "available" or extraInfo is "unattached"; every other *)
(* self-generated volume name (prefix "unknown-") is always valid.         *)
(***************************************************************************)
C12_VolumeValidity ==
    ValidityAsked("volume") =>
        LET name == call.args[1]
        IN  IF name = "unattached" \/ HasPrefix(name, "unattached-")
            THEN ret = (call.args[3] = "available" \/ call.args[4] = "unattached")
            ELSE isQuickTagCreatedName(name, "volume") =>
                    /\ HasPrefix(name, "unknown-")
                    /\ ret = TRUE

\* "unattached-<device>" on a volume that is in use but has no attachment.
C12_Witness ==
    /\ ValidityAsked("volume")
    /\ HasPrefix(call.args[1], "unattached-")
    /\ call.args[3] = "in-use"
    /\ call.args[4] = "unattached"
    /\ ret = TRUE

(***************************************************************************)
(* C13: for a self-generated ENI name: "unattached-eni" or a name starting *)
(* with "unattached-" is valid exactly when extraInfo is "unattached";     *)
(* otherwise a name containing "-eni" is valid exactly when extraInfo is   *)
(* not "unattached".                                                       *)
(***************************************************************************)
C13_EniValidity ==
    (ValidityAsked("eni") /\ isQuickTagCreatedName(call.args[1], "eni")) =>
        LET name == call.args[1]
        IN  IF name = "unattached-eni" \/ HasPrefix(name, "unattached-")
            THEN ret = (call.args[4] = "unattached")
            ELSE Contains(name, "-eni") => ret = (call.args[4] # "unattached")

\* "unattached-eni" on an ENI that is attached to an instance.
C13_Witness ==
    /\ ValidityAsked("eni")
    /\ call.args[1] = "unattached-eni"
    /\ call.args[4] = "attached-to-i-1"
    /\ ret = FALSE

\* Descriptions handed to the resolver: those of ScanSpec and descriptions
\* that name several services, in either case of letters.
ResolverDescriptions ==
    ENIDescriptions \cup
    {"aws lambda eni for RDS proxy", "RDS cache", "ElastiCache ELB app/c/1",
     "ELB net/nat-lb/12", "Load Balancer lb-1 nat", "elb", "standards",
     "international", "ELB app//x", "elastic load balancing", "Lambda ELB app/l/1"}

\* The attachment of the ENI handed to the resolver.
ResolverAttachments ==
    {[attached |-> FALSE, instanceId |-> Nil, attachmentId |-> Nil],
     [attached |-> TRUE, instanceId |-> "i-1", attachmentId |-> "eni-attach-1"],
     [attached |-> TRUE, instanceId |-> "i-1", attachmentId |-> Nil],
     [attached |-> TRUE, instanceId |-> Nil, attachmentId |-> "ela-attach-1"],
     [attached |-> TRUE, instanceId |-> Nil, attachmentId |-> Nil]}

CallAttachmentInfo ==
    /\ call = NoCall
    /\ \E att \in ResolverAttachments, description \in ResolverDescriptions :
        LET eni == RawENI("eni-1", Nil, "in-use", att.attached, att.instanceId,
                          att.attachmentId, description)
        IN  /\ call' = [fn |-> "getENIAttachmentInfo", args |-> <<eni>>]
            /\ ret' = getENIAttachmentInfo(eni)
    /\ UNCHANGED <<progVars, goVars>>

(***************************************************************************)
(* C16: getENIAttachmentInfo returns "unattached" without attachment;      *)
(* "attached-to-<instanceId>" when the attachment has an instance id;      *)
(* otherwise, with an attachment id, "attached-<type>-<attachmentId>"      *)
(* for the first service type in the order lambda, rds, elasticache|cache, *)
(* elb|load balancer, nat whose word occurs in the lower-cased             *)
(* description ("service" when none does), but "attached-elb-<lbName>"     *)
(* for type elb when a load-balancer name can be extracted; and            *)
(* "attached-unknown" when the attachment has neither id.                  *)
(***************************************************************************)
\* The service types in the order of precedence, each with its words.
ServicePrecedence ==
    <<[type |-> "lambda", words |-> {"lambda"}],
      [type |-> "rds", words |-> {"rds"}],
      [type |-> "elasticache", words |-> {"elasticache", "cache"}],
      [type |-> "elb", words |-> {"elb", "load balancer"}],
      [type |-> "nat", words |-> {"nat"}]>>

\* The first service type one of whose words occurs in the description.
ServiceTypeOf(description) ==
    LET hits == {k \in 1..Len(ServicePrecedence) :
                    \E w \in ServicePrecedence[k].words :
                        Contains(ToLower(description), w)}
    IN  IF description = Nil \/ hits = {} THEN "service"
        ELSE ServicePrecedence[CHOOSE k \in hits : \A h \in hits : k <= h].type

C16_AttachmentInfo ==
    call.fn = "getENIAttachmentInfo" =>
        LET eni == call.args[1]
            type == ServiceTypeOf(eni.description)
        IN  IF ~eni.attached THEN ret = "unattached"
            ELSE IF eni.instanceId # Nil THEN ret = "attached-to-" \o eni.instanceId
            ELSE IF eni.attachmentId = Nil THEN ret = "attached-unknown"
            ELSE IF type = "elb" /\ extractELBName(eni.description) # ""
                 THEN ret = "attached-elb-" \o extractELBName(eni.description)
                 ELSE ret = "attached-" \o type \o "-" \o eni.attachmentId

\* A service attachment whose description names a load balancer and holds
\* the word "nat" as well.
C16_Witness ==
    /\ call.fn = "getENIAttachmentInfo"
    /\ call.args[1].description = "ELB net/nat-lb/12"
    /\ call.args[1].instanceId = Nil
    /\ ret = "attached-elb-nat-lb"

\* Descriptions handed to extractELBName: those of the resolver and
\* descriptions with several "elb" tokens, an "elb" token at the end, or an
\* empty segment after the first "/".
ELBDescriptions ==
    (ResolverDescriptions \ {Nil}) \cup
    {"ELB foo ELB app/x/1", "elb elb a/b", "x ELB", "ELB app/", "ELB /n/",
     "ELB a/b ELB c/d", "ELB app//x ELB net/lb/1", "  ELB\tapp/t/1 ", "ELBS app/x/1",
     "myelb app/x/1", "ELB app ELB"}

CallExtractELBName ==
    /\ call = NoCall
    /\ \E description \in ELBDescriptions :
        /\ call' = [fn |-> "extractELBName", args |-> <<description>>]
        /\ ret' = extractELBName(description)
    /\ UNCHANGED <<progVars, goVars>>

(***************************************************************************)
(* C17 (as stated): extractELBName splits the description on white space,  *)
(* finds the token equal to "elb" without regard to case, takes the token  *)
(* after it, splits that on "/" and returns segment 1 when there are at    *)
(* least two segments, the empty string otherwise.                         *)
(***************************************************************************)
C17_FirstElbTokenDecides ==
    call.fn = "extractELBName" => ret = extractELBNameFirstToken(call.args[1])

(***************************************************************************)
(* C17 (amended): extractELBName goes through the tokens in order and      *)
(* returns segment 1 (which may be empty) of the first token that follows  *)
(* an "elb" token and has at least two "/"-separated segments; the empty   *)
(* string when there is no such token.                                     *)
(***************************************************************************)
C17_FirstSplittableElbTokenDecides ==
    call.fn = "extractELBName" =>
        LET parts == Fields(call.args[1])
            hits  == {i \in 1..(Len(parts) - 1) :
                        /\ ToLower(parts[i]) = "elb"
                        /\ Len(Split(parts[i + 1], "/")) >= 2}
        IN  IF hits = {} THEN ret = ""
            ELSE ret = Split(parts[(CHOOSE i \in hits : \A h \in hits : i <= h) + 1],
                             "/")[2]

\* The token after the first "elb" has no "/", the one after the second has.
C17_Witness ==
    /\ call.fn = "extractELBName"
    /\ call.args[1] = "ELB foo ELB app/x/1"
    /\ ret = "x"

\* What getAttachmentNames may have returned for the instance "i-1".
AttachmentNameMaps == {<<>>} \cup {[id \in {"i-1"} |-> name] : name \in {"web", "i-1", ""}}

\* The suggestion step of findUntaggedENIs for one ENI: the resolver's token
\* and the names looked up go into eniSuggestion.
CallENISuggestion ==
    /\ call = NoCall
    /\ \E att \in ResolverAttachments,
          description \in ResolverDescriptions \cup {"ELB net/my-lb/1234567890abcdef"},
          names \in AttachmentNameMaps :
        LET eni == RawENI("eni-1", Nil, "in-use", att.attached, att.instanceId,
                          att.attachmentId, description)
            token == getENIAttachmentInfo(eni)
        IN  /\ call' = [fn |-> "eniSuggestion", args |-> <<token, names, eni>>]
            /\ ret' = eniSuggestion(token, names)
    /\ UNCHANGED <<progVars, goVars>>

(***************************************************************************)
(* C18: the suggestion for each token of the resolver.                     *)
(*   attached-to-<iid>     <name>-eni, "<iid> (<name>)" when the name of   *)
(*                         <iid> was looked up, else <iid>-eni, "<iid>"    *)
(*   attached-elb-<id>     <id>-eni, "elb-<id>"                            *)
(*   attached-<type>-<id>  <type>-<id>-eni, "<type>-attachment-<id>";      *)
(*                         <id> is all that follows the second "-"         *)
(*   attached-<id>         service-<id>-eni, "service-attachment-<id>"     *)
(*   anything else         unattached-eni, "unattached"                    *)
(***************************************************************************)
\* The text before the first "-" of s, and the text after it.
BeforeDash(s) == SubSeq(s, 1, IndexOf(s, "-") - 1)
AfterDash(s) == SubSeq(s, IndexOf(s, "-") + 1, Len(s))

C18_SuggestionPerToken ==
    call.fn = "eniSuggestion" =>
        LET token == call.args[1]
            names == call.args[2]
            rest  == SubSeq(token, Len("attached-") + 1, Len(token))
            iid   == SubSeq(token, Len("attached-to-") + 1, Len(token))
        IN  IF HasPrefix(token, "attached-to-")
            THEN IF iid \in DOMAIN names
                 THEN ret = [SuggestedName |-> names[iid] \o "-eni",
                             Extra |-> iid \o " (" \o names[iid] \o ")"]
                 ELSE ret = [SuggestedName |-> iid \o "-eni", Extra |-> iid]
            ELSE IF HasPrefix(token, "attached-elb-")
            THEN ret = [SuggestedName |-> AfterDash(rest) \o "-eni",
                        Extra |-> "elb-" \o AfterDash(rest)]
            ELSE IF HasPrefix(token, "attached-") /\ Contains(rest, "-")
            THEN ret = [SuggestedName |->
                            BeforeDash(rest) \o "-" \o AfterDash(rest) \o "-eni",
                        Extra |-> BeforeDash(rest) \o "-attachment-" \o AfterDash(rest)]
            ELSE IF HasPrefix(token, "attached-")
            THEN ret = [SuggestedName |-> "service-" \o rest \o "-eni",
                        Extra |-> "service-attachment-" \o rest]
            ELSE ret = [SuggestedName |-> "unattached-eni", Extra |-> "unattached"]

\* The load balancer of the description "ELB net/my-lb/1234567890abcdef".
C18_Witness ==
    /\ call.fn = "eniSuggestion"
    /\ call.args[3].description = "ELB net/my-lb/1234567890abcdef"
    /\ call.args[3].instanceId = Nil
    /\ call.args[1] = "attached-elb-my-lb"
    /\ ret = [SuggestedName |-> "my-lb-eni", Extra |-> "elb-my-lb"]

\* The instance ids a lookup may be asked for.
RequestedIDSets == {{}, {"i-1"}, {"i-1", "i-2"}}

\* The Name tag a described instance may carry.
DescribedNameTags == {Nil, "", "web", "db"}

\* What a successful DescribeInstances(InstanceIds = ids) may return: for
\* each id at most one instance, with or without a Name tag.
DescribedAnswers(ids) ==
    {answer \in SUBSET {[id |-> id, nameTag |-> tag] :
                            id \in ids, tag \in DescribedNameTags} :
        \A a, b \in answer : a.id = b.id => a = b}

CallGetInstanceNames ==
    /\ call = NoCall
    /\ \E fn \in {"getInstanceNames", "getAttachmentNames"},
          ids \in RequestedIDSets :
        \E described \in DescribedAnswers(ids) :
            /\ call' = [fn |-> fn, args |-> <<ids, described>>]
            /\ ret' = IF fn = "getInstanceNames"
                      THEN getInstanceNames(ids, described)
                      ELSE getAttachmentNames(ids, described)
    /\ UNCHANGED <<progVars, goVars>>

\* The last call was a successful instance-name lookup.
NamesLookedUp == call.fn \in {"getInstanceNames", "getAttachmentNames"}

\* The mapping holds for id the instance's Name tag, or id without one.
NameOrOwnID(id) ==
    \E d \in call.args[2] :
        /\ d.id = id
        /\ ret[id] = IF d.nameTag # Nil THEN d.nameTag ELSE id

(***************************************************************************)
(* C20 (as stated): after a successful lookup every requested instance id  *)
(* is a key of the mapping, with the instance's Name tag as value, or the  *)
(* id itself when the instance has no Name tag.                            *)
(***************************************************************************)
C20_EveryRequestedIDIsKey ==
    NamesLookedUp =>
        \A id \in call.args[1] :
            /\ id \in DOMAIN ret
            /\ NameOrOwnID(id)

(***************************************************************************)
(* C20 (amended): the keys of the mapping are the ids of the instances     *)
(* the provider returned, each with the instance's Name tag as value, or   *)
(* the id itself when the instance has no Name tag; a requested id the     *)
(* provider did not return is not a key.                                   *)
(***************************************************************************)
C20_ReturnedInstancesAreKeys ==
    NamesLookedUp =>
        /\ DOMAIN ret = {d.id : d \in call.args[2]}
        /\ \A id \in DOMAIN ret : NameOrOwnID(id)

\* Two instances were asked for and returned, one of them without Name tag.
C20_Witness ==
    /\ NamesLookedUp
    /\ call.args[1] = {"i-1", "i-2"}
    /\ DOMAIN ret = {"i-1", "i-2"}
    /\ ret["i-1"] = "i-1"
    /\ ret["i-2"] = "db"

\* strconv.Itoa for the numbers of the generated ids.
RECURSIVE Itoa(_)
Itoa(n) == IF n < 10 THEN Digit(n) ELSE Itoa(n \div 10) \o Digit(n % 10)

\* How many distinct ids a lookup may be asked for: none, one, and the
\* numbers around one and two full batches.
AMICounts == {0, 1, 2, 199, 200, 201, 400, 401}

InstanceCounts == {0, 1, 3, 999, 1000, 1001, 2001}

\* The orders in which the keys of the id map may come out (Go leaves the
\* iteration order of a map open).
SliceOrders == {"ascending", "descending", "rotated"}

\* The ids prefix1 .. prefix<n> in one of these orders.
IDSlice(prefix, n, order) ==
    [k \in 1..n |->
        prefix \o Itoa(CASE order = "ascending" -> k
                         [] order = "descending" -> n + 1 - k
                         [] order = "rotated" -> ((k + (n \div 2) - 1) % n) + 1)]

\* What the provider holds for the ids: everything (named after the id),
\* nothing, or a mix in which every third id is unknown and every third
\* image has no name (every third instance no Name tag).
ProviderVariants == {"all", "none", "mixed"}

ProviderImages(n, variant) ==
    {[id |-> "ami-" \o Itoa(k),
      name |-> IF variant = "mixed" /\ k % 3 = 2 THEN Nil ELSE "image-" \o Itoa(k)] :
        k \in {j \in 1..n : variant = "all" \/ (variant = "mixed" /\ j % 3 # 0)}}

ProviderInstances(n, variant) ==
    {[id |-> "i-" \o Itoa(k),
      nameTag |-> IF variant = "mixed" /\ k % 3 = 2 THEN Nil ELSE "host-" \o Itoa(k)] :
        k \in {j \in 1..n : variant = "all" \/ (variant = "mixed" /\ j % 3 # 0)}}

\* The call of the lookup that fails: none (0), the first, the second.
FailingCalls == {0, 1, 2}

CallGetAMINamesInBatches ==
    /\ call = NoCall
    /\ \E n \in AMICounts, order \in SliceOrders, variant \in ProviderVariants,
          failAt \in FailingCalls :
        LET slice == IDSlice("ami-", n, order)
            known == ProviderImages(n, variant)
        IN  /\ call' = [fn |-> "getAMINamesInBatches",
                        args |-> <<slice, known, failAt, amiBatchSize>>]
            /\ ret' = getAMINamesInBatches(slice, known, failAt)
    /\ UNCHANGED <<progVars, goVars>>

CallGetInstanceNamesInBatches ==
    /\ call = NoCall
    /\ \E n \in InstanceCounts, order \in SliceOrders, variant \in ProviderVariants,
          failAt \in FailingCalls :
        LET slice == IDSlice("i-", n, order)
            known == ProviderInstances(n, variant)
        IN  /\ call' = [fn |-> "getInstanceNamesInBatches",
                        args |-> <<slice, known, failAt, instanceBatchSize>>]
            /\ ret' = getInstanceNamesInBatches(slice, known, failAt)
    /\ UNCHANGED <<progVars, goVars>>

\* The last call was a batch lookup.
BatchLookedUp == call.fn \in {"getAMINamesInBatches", "getInstanceNamesInBatches"}

RECURSIVE TotalLen(_)
TotalLen(seqs) == IF seqs = <<>> THEN 0 ELSE Len(Head(seqs)) + TotalLen(Tail(seqs))

\* The same lookup with the ids taken in another order.
LookupInOrder(order) ==
    LET n == Len(call.args[1])
    IN  IF call.fn = "getAMINamesInBatches"
        THEN getAMINamesInBatches(IDSlice("ami-", n, order), call.args[2], call.args[3])
        ELSE getInstanceNamesInBatches(IDSlice("i-", n, order), call.args[2],
                                       call.args[3])

(***************************************************************************)
(* C23.  A batch lookup of n distinct ids with batch size B (200 for AMI   *)
(* names, 1000 for instance names) that returns a mapping has made         *)
(* ceil(n/B) provider calls (none, and an empty mapping, for n = 0), each  *)
(* with at least one and at most B ids, every id in exactly one of them;   *)
(* and the mapping is the same in whatever order the ids are taken.  A     *)
(* lookup whose k-th call fails has made k calls and returns no mapping.   *)
(***************************************************************************)
C23_BatchLookup ==
    BatchLookedUp =>
        LET slice == call.args[1]
            n     == Len(slice)
            B     == call.args[4]
        IN  IF ret.err
            THEN /\ Len(ret.calls) = call.args[3]
                 /\ ret.names = Nil
            ELSE /\ Len(ret.calls) * B >= n
                 /\ (Len(ret.calls) - 1) * B < n \/ n = 0
                 /\ n = 0 => (ret.calls = <<>> /\ ret.names = <<>>)
                 /\ \A k \in 1..Len(ret.calls) : Len(ret.calls[k]) \in 1..B
                 /\ TotalLen(ret.calls) = n
                 /\ UNION {Range(ret.calls[k]) : k \in 1..Len(ret.calls)} = Range(slice)
                 /\ \A order \in SliceOrders : LookupInOrder(order).names = ret.names

\* 401 AMI ids in three calls, against a provider that knows some of them.
C23_Witness ==
    /\ call.fn = "getAMINamesInBatches"
    /\ Len(call.args[1]) = 401
    /\ call.args[1][1] = "ami-401"
    /\ ~ret.err
    /\ Len(ret.calls) = 3
    /\ Len(ret.calls[3]) = 1
    /\ "ami-1" \in DOMAIN ret.names
    /\ "ami-3" \notin DOMAIN ret.names

NextFn ==
    \/ CallGetAMINamesInBatches
    \/ CallGetInstanceNamesInBatches
    \/ CallStillValid
    \/ CallAttachmentInfo
    \/ CallExtractELBName
    \/ CallENISuggestion
    \/ CallGetInstanceNames

FnSpec == Init /\ [][NextFn]_vars

(***************************************************************************)
(* One tagging invocation, goroutine by goroutine.                         *)
(***************************************************************************)

NextGo ==
    \/ MainStartScan
    \/ Throb
    \/ ScanStartPhase
    \/ ScanReceive
    \/ BeginCall
    \/ EndCall
    \/ Send
    \/ MainReceiveScan
    \/ MainSelect
    \/ MainStartTag
    \/ MainReceiveTag

GoSpec == Init /\ [][NextGo]_vars

\* The goroutine has ended (a worker that has sent), or never ran.
Exited(w) == gpc[w] = "exit"

OpsOf(w) == {[by |-> w, op |-> Script(w)[k]] : k \in 1..Len(Script(w))}

(***************************************************************************)
(* C24.  Within one tagging invocation at most one provider call or ledger *)
(* update is in flight, and none of them is made by a goroutine that waits *)
(* in showProgress; a scan runs only after the scan before it has ended;   *)
(* a tag is written only after the selection has been read and the scan    *)
(* has ended; and the tag of a resource is written only after the write    *)
(* and the ledger append of the resource before it have finished.          *)
(***************************************************************************)
C24_OnePhaseAtATime ==
    /\ Cardinality(inFlight) <= 1
    /\ \A f \in inFlight : f.by \notin Waiters
    /\ \A k \in 2..Len(ScanWorkers) :
          gpc[ScanWorkers[k]] # "off" =>
              /\ Exited(ScanWorkers[k - 1])
              /\ returned[ScanWorkers[k - 1]] = produced[ScanWorkers[k - 1]]
    /\ \A k \in 1..Len(TagWorkers) :
          gpc[TagWorkers[k]] # "off" =>
              /\ plan.read
              /\ Exited("scan")
              /\ \A j \in 1..Len(ScanWorkers) : Exited(ScanWorkers[j])
              /\ k > 1 => /\ Exited(TagWorkers[k - 1])
                          /\ OpsOf(TagWorkers[k - 1]) \subseteq finished

\* The tag of the second resource is being written.
C24_Witness ==
    /\ inFlight = {[by |-> "tag2", op |-> "CreateTags"]}
    /\ [by |-> "volumes", op |-> "DescribeVolumes volume"] \in finished
    /\ throbber["main"] = 3

(***************************************************************************)
(* The same invocation under the scheduling of the Go runtime: a goroutine *)
(* that can send on its channel does so, and a caller whose loop finds a   *)
(* value in the channel receives it (the sleep of the loop ends, and the   *)
(* select takes the receive case when it is ready).  Nothing is assumed    *)
(* about the provider: a call may never return.                            *)
(***************************************************************************)
GoLiveSpec ==
    /\ GoSpec
    /\ \A w \in Workers : WF_vars(SendOf(w))
    /\ WF_vars(ScanReceive)
    /\ WF_vars(MainReceiveScan)
    /\ WF_vars(MainReceiveTag)

\* The goroutine that waits in the showProgress call whose worker is w.
WaiterOf(w) == IF w \in Range(ScanWorkers) THEN "scan" ELSE "main"

(***************************************************************************)
(* C25.  A showProgress / showProgressWithResult call returns the value    *)
(* and the error its function returned, and only after the function has    *)
(* returned and the worker has sent; it returns whenever the function      *)
(* has returned; the worker's send finds room in the channel; and no step  *)
(* changes both what the worker keeps and what the waiting caller keeps    *)
(* (they share the channel only).                                          *)
(***************************************************************************)
C25_ProgressReturnsWhatFnReturned ==
    /\ [](\A w \in Workers :
            returned[w] # Pending => (returned[w] = produced[w] /\ Exited(w)))
    /\ [](\A w \in Workers : gpc[w] = "send" => Len(done[w]) < doneCapacity)
    /\ \A w \in Workers : (produced[w] # Pending) ~> (returned[w] # Pending)
    /\ [][\A w \in Workers :
            gpc[w] # "off" =>
                ~ /\ (gpc'[w] # gpc[w] \/ step'[w] # step[w] \/ produced'[w] # produced[w])
                  /\ (gpc'[WaiterOf(w)] # gpc[WaiterOf(w)]
                        \/ throbber'[WaiterOf(w)] # throbber[WaiterOf(w)]
                        \/ returned'[w] # returned[w])]_vars

\* applyTags has got the error of a failed CreateTags call from showProgress,
\* after the scan had returned its list through two nested calls.
C25_Witness ==
    /\ returned["tag1"] = FnValue(Nil, "CreateTags failed")
    /\ returned["scan"] = FnValue("resources", Nil)
    /\ returned["enis"] = FnValue("result of enis", Nil)
    /\ gpc["main"] = "fatal"

(***************************************************************************)
(* Scan, apply, scan again: the accounts of ScanSpec and accounts whose    *)
(* network interface is attached to an instance or a load balancer with a  *)
(* name of the operator's choice; no provider event in between.            *)
(***************************************************************************)

\* Names an operator may have given to an instance or a load balancer.
PeerNames == {"web", "service-x", "unattached-primary-interface", "my-attach-pool",
              "unattached-attach-pool"}

PeerAccounts ==
    {[instances |-> <<RawInstance("i-1", name, "running", "ami-1")>>,
      volumes |-> <<>>,
      enis |-> <<RawENI("eni-1", Nil, "in-use", TRUE, "i-1", "eni-attach-1", Nil)>>,
      images |-> {}] : name \in PeerNames}
    \cup
    {[instances |-> <<>>,
      volumes |-> <<>>,
      enis |-> <<RawENI("eni-1", Nil, "in-use", TRUE, Nil, "ela-attach-1",
                        "ELB app/" \o name \o "/35b9")>>,
      images |-> {}] : name \in PeerNames}

InitRescan ==
    /\ \E account \in InstanceAccounts \cup VolumeAccounts \cup ENIAccounts
                            \cup PeerAccounts :
        /\ instances = account.instances
        /\ volumes = account.volumes
        /\ enis = account.enis
        /\ images = account.images
    /\ ledger = <<>>
    /\ clock = 0
    /\ runCount = 0
    /\ pc = "idle"
    /\ result = "none"
    /\ InitLocals
    /\ undoCompleted = {}
    /\ attempted = {}
    /\ events = 0
    /\ call = NoCall
    /\ ret = <<>>
    /\ InitGo

NextRescan ==
    \/ StartRun
    \/ ScanInstances
    \/ ScanVolumes
    \/ ScanENIs
    \/ Select
    \/ ApplyTag

RescanSpec == InitRescan /\ [][NextRescan]_vars

(***************************************************************************)
(* C26.  Tagging converges: a resource that carries the name a run has     *)
(* applied to it (the ledger entry of the run before) is not listed by the *)
(* next scan, whatever the kind of the resource and whatever the name of   *)
(* the instance, load balancer or image the suggestion was built from.     *)
(***************************************************************************)
C26_TaggingConverges ==
    (runID = "run-2" /\ ScanCompleted) =>
        \A k \in 1..Len(ledger) :
            (ledger[k].RunID = "run-1"
                /\ NameTagOf(ledger[k].Resource) = ledger[k].NewValue)
            => ~InCandidates(ledger[k].Resource)

(***************************************************************************)
(* Undo over any stored ledger: the file ~/.quick-tag.yml is read as it    *)
(* is (main.go:834-858), whoever wrote it; a key an entry leaves out is    *)
(* the zero value, so RunID may be "" and any entry may be flagged.        *)
(***************************************************************************)

MaxStored == 3

StoredEntries ==
    {[TagHistoryEntry("123456789012", resource, "", "unattached-eni", 0, run)
        EXCEPT !.Undone = undone] :
        resource \in {"eni-1", "eni-2"}, run \in {"", "run-1", "run-2"},
        undone \in BOOLEAN}

StoredLedgers == UNION {[1..n -> StoredEntries] : n \in 0..MaxStored}

InitLedger ==
    /\ instances = <<>>
    /\ volumes = <<>>
    /\ enis = <<RawENI("eni-1", "unattached-eni", "available", FALSE, Nil, Nil, Nil)>>
    /\ images = {}
    /\ ledger \in StoredLedgers
    /\ clock = 0
    /\ runCount = 0
    /\ pc = "idle"
    /\ result = "none"
    /\ InitLocals
    /\ undoCompleted = {}
    /\ attempted = {}
    /\ events = 0
    /\ call = NoCall
    /\ ret = <<>>
    /\ InitGo

NextLedger ==
    \/ UndoStart
    \/ UndoConfirm
    \/ UndoRestore
    \/ UndoSave

LedgerSpec == InitLedger /\ [][NextLedger]_vars

(***************************************************************************)
(* C28.  undoLastRun never fails with "no actions found for run <id>":     *)
(* whatever the ledger holds, a last-run id that was found comes with at   *)
(* least one collected entry, an entry of that run that is not undone.     *)
(***************************************************************************)
C28_NoActionsFoundUnreachable ==
    /\ result # "no actions found for run"
    /\ lastRunID # "" =>
          /\ Len(actionsToUndo) > 0
          /\ \A k \in 1..Len(actionsToUndo) :
                actionsToUndo[k].RunID = lastRunID /\ ~actionsToUndo[k].Undone

\* A last run was found in a ledger whose last entry is undone and which holds
\* an undone entry of the run found.
C28_Witness ==
    /\ pc = "undoConfirm"
    /\ lastRunID = "run-1"
    /\ Len(ledger) = MaxStored
    /\ ledger[Len(ledger)].Undone
    /\ \E i \in 1..Len(ledger) : ledger[i].RunID = "run-1" /\ ledger[i].Undone
    /\ Len(actionsToUndo) = 1

(***************************************************************************)
(* C29.  Whatever the ledger holds, an undo that loaded it fails with "no  *)
(* tagging history found" exactly when there is no entry, fails with "no   *)
(* undone runs found" exactly when there are entries and all are undone,   *)
(* and otherwise goes on to the confirmation for the run of an entry that  *)
(* is not undone.                                                          *)
(***************************************************************************)
C29_UndoStartOutcomes ==
    [][(UndoStart /\ result' # "failed to load history") =>
        /\ result' = "no tagging history found" <=> Len(ledger) = 0
        /\ result' = "no undone runs found" <=>
              (Len(ledger) > 0 /\ \A i \in 1..Len(ledger) : ledger[i].Undone)
        /\ (\E i \in 1..Len(ledger) : ~ledger[i].Undone) =>
              /\ pc' = "undoConfirm"
              /\ \E i \in 1..Len(ledger) :
                    ~ledger[i].Undone /\ ledger[i].RunID = lastRunID']_vars

(***************************************************************************)
(* C30.  An ENI whose Name tag is a self-generated shape without "-eni"    *)
(* and without the prefix "unattached-" (the empty string, a bare ENI id,  *)
(* "Network interface...", a name with "primary" and "interface") has a    *)
(* name that is valid for every state and extraInfo, and the scan never    *)
(* lists it, attached or not.                                              *)
(***************************************************************************)
PlainGeneratedEniName(name) ==
    /\ isQuickTagCreatedName(name, "eni")
    /\ ~Contains(name, "-eni")
    /\ ~HasPrefix(name, "unattached-")

C30_PlainGeneratedEniNameKept ==
    \A i \in 1..Len(enis) :
        (enis[i].nameTag # Nil /\ PlainGeneratedEniName(enis[i].nameTag)) =>
            /\ \A state \in CurrentStates \cup {enis[i].status} :
               \A extra \in ExtraInfos \cup {getENIAttachmentInfo(enis[i])} :
                  isQuickTagNameStillValid(enis[i].nameTag, "eni", state, extra)
            /\ ~eniNeedsTagging(enis[i])
            /\ ~InCandidates(enis[i].id)

\* A scan has ended with nothing to tag in an account whose one ENI is
\* unattached and carries an empty Name tag.
C30_Witness ==
    /\ pc = "done"
    /\ result = "ok: nothing to tag"
    /\ Len(enis) = 1
    /\ enis[1].nameTag = ""
    /\ ~enis[1].attached
    /\ getENIAttachmentInfo(enis[1]) = "unattached"

=============================================================================
